---------------------------- MODULE Spec2Model ----------------------------
(***************************************************************************)
(* file-compare: duplicate scanner (FileScanner + CSVLog), auto-keeper     *)
(* (FileAutoKeeper), sanitizer (check_data / clean_data) and the           *)
(* ComparisonController that drives them.                                  *)
(***************************************************************************)
EXTENDS Integers, Sequences, FiniteSets, TLC

(***************************************************************************)
(* Bounds of the model.                                                    *)
(***************************************************************************)
NumPaths == 3
MaxOps == 2
MaxInterrupts == 1

(***************************************************************************)
(* The file system the program looks at.  A path is an index into          *)
(* PathTable; root, stem and suffix are functions of the path, the size    *)
(* is read from disk (variable size).  Root "P" is the parent directory    *)
(* of roots "A" and "B".                                                   *)
(* Characters of a stem are numbers: 2*k is a lower-case letter, 2*k+1     *)
(* the same letter in upper case.                                          *)
(***************************************************************************)
PathTable ==
  << [root |-> "A", stem |-> <<2, 4, 6>>,    ext |-> ".jpg"],
     [root |-> "A", stem |-> <<3, 4, 6, 8>>, ext |-> ".jpg"],
     [root |-> "B", stem |-> <<2, 4, 6, 10>>, ext |-> ".png"],
     [root |-> "B", stem |-> <<2, 4, 6>>,    ext |-> ".txt"],
     [root |-> "B", stem |-> <<2, 4, 6, 8>>, ext |-> ""] >>

Paths == 1..NumPaths
Copies == 1..2
Objs == [path : Paths, copy : Copies]
Roots == {"A", "B", "P"}
SizeVals == {999, 1000, 1001}
Stats == {"SIZE", "NAME"}

Under(p, root) == root = "P" \/ PathTable[p].root = root

SeqToSet(s) == {s[i] : i \in 1..Len(s)}

RECURSIVE Concat(_)
Concat(ss) == IF ss = <<>> THEN <<>> ELSE Head(ss) \o Concat(Tail(ss))

RECURSIVE SeqOfSet(_)
\* the elements of a set of integers in ascending order
SeqOfSet(S) ==
  IF S = {} THEN <<>>
  ELSE LET m == CHOOSE x \in S : \A y \in S : x <= y
       IN <<m>> \o SeqOfSet(S \ {m})

VARIABLES
  dirs,       \* ComparisonController.roots, in the order given
  size,       \* st_size of every path
  mtime,      \* st_mtime of every path (seconds)
  ctime,      \* st_ctime of every path (seconds)
  exists,     \* the paths that exist on disk
  suffix,     \* path.suffix.lower() of every path
  sizeVar,    \* plugin setting size_var
  exts,       \* setting exts, most preferred first; <<>> stands for None
  groupBy,    \* ComparisonController._group_by()
  combine,    \* FileScanner.combine_groups
  rmPaths,    \* plugin setting rm_paths (a set of roots, {} = unset)
  cleanFilter,\* ComparisonController.clean_filter
  plugins,    \* File.plugins: the registered providers, in registration order
  data,       \* ComparisonController._data
  kept,       \* the File objects whose keep flag is True
  csv,        \* the snapshot file: whether it exists, and its rows
  pc,         \* "idle" or "scanning" (inside FileScanner.run)
  pos,        \* index of the next entry of the walk
  made,       \* File objects built so far for every path
  matches,    \* FileScanner.run: matches (the hash_dict)
  skipped,    \* FileScanner.run: skipped
  scanned,    \* FileScanner.run: scanned
  log,        \* rows of the scan log below its header
  logExists,  \* the scan log file exists
  trace,      \* history: the interruptions of the scan that wrote the log
  hadError,   \* history: a per-file error was caught while writing the log
  scanResult, \* history: what the last completed FileScanner.run returned
  lastScan,   \* history: "none", "interrupted" or "complete"
  lastOp,     \* history: the last controller operation and its arguments
  ops         \* number of controller operations so far

vars == << dirs, size, mtime, ctime, exists, suffix, sizeVar, exts, groupBy, combine, rmPaths,
           cleanFilter, plugins, data, kept, csv, pc, pos, made, matches, skipped,
           scanned, log, logExists, trace, hadError, scanResult, lastScan,
           lastOp, ops >>

envVars == << dirs, size, mtime, ctime, suffix, sizeVar, exts, groupBy, combine, rmPaths,
              cleanFilter, plugins >>
scanVars == << pc, pos, made, matches, skipped, scanned >>
histVars == << trace, hadError, scanResult, lastScan >>

(***************************************************************************)
(* compUtils: matchers and the metric codec                                *)
(***************************************************************************)
Min2(a, b) == IF a <= b THEN a ELSE b
Max2(a, b) == IF a >= b THEN a ELSE b

\* length_matcher(min_len)(a, b)
length_matcher(min_len, a, b) ==
  LET least == Min2(Len(a), Len(b))
      most == Max2(Len(a), Len(b))
  IN IF least < min_len \/ most - least >= least
     THEN a = b
     ELSE SubSeq(a, 1, least) = SubSeq(b, 1, least)

\* range_matcher(variance)(a, b)
range_matcher(variance, a, b) ==
  IF variance = 0 THEN a = b
  ELSE b >= a - variance /\ b <= a + variance

DIVISOR == 1000

RECURSIVE MetricIdx(_)
\* int(math.floor(math.log(num, _DIVISOR))) for num >= 1
MetricIdx(num) == IF num < DIVISOR THEN 0 ELSE 1 + MetricIdx(num \div DIVISOR)

RECURSIVE Pow(_, _)
Pow(b, e) == IF e = 0 THEN 1 ELSE b * Pow(b, e - 1)

\* to_metric(num, "B", 16): the string "<whole>.<frac> <prefix>B", kept as
\* its three fields; frac counts units of DIVISOR^-pfx
to_metric(num) ==
  IF num = 0 THEN [whole |-> 0, frac |-> 0, pfx |-> 0]
  ELSE LET i == MetricIdx(num)
           p == Pow(DIVISOR, i)
       IN [whole |-> num \div p, frac |-> num % p, pfx |-> i]

\* round(from_metric(num_str))
from_metric(str) == str.whole * Pow(DIVISOR, str.pfx) + str.frac

(***************************************************************************)
(* FilePlugin: stats, hashes and strings                                   *)
(***************************************************************************)
MinName == 3

LowerCh(c) == 2 * (c \div 2)
Lower(s) == [i \in 1..Len(s) |-> LowerCh(s[i])]

\* FilePlugin.current_stats
current_stats(p) ==
  [SIZE |-> size[p], NAME |-> PathTable[p].stem]

\* FilePlugin.to_hash
to_hash(stat, value) == IF stat = "NAME" THEN Lower(value) ELSE value

\* FilePlugin.from_hash
from_hash(stat, hash) == hash

\* FilePlugin.to_str
to_str(stat, value) == IF stat = "SIZE" THEN to_metric(value) ELSE value

\* FilePlugin.from_str
from_str(stat, str) == IF stat = "SIZE" THEN from_metric(str) ELSE str

\* File.hash_to_str
hash_to_str(stat, hash) == to_str(stat, from_hash(stat, hash))

\* File.str_to_hash
str_to_hash(stat, str) == to_hash(stat, from_str(stat, str))

\* FilePlugin.comparison_funcs, applied by FileScanner.__is_match
is_match(stat, a, b) ==
  IF stat = "NAME" THEN length_matcher(MinName, a, b)
  ELSE range_matcher(sizeVar, a, b)

(***************************************************************************)
(* compFile: FileGroup                                                     *)
(***************************************************************************)
HasKey(dict, key) == \E i \in 1..Len(dict) : dict[i].key = key
KeyIndex(dict, key) == CHOOSE i \in 1..Len(dict) : dict[i].key = key

\* File.__eq__: two File objects are equal when their paths are
HasFile(files, obj) == \E i \in 1..Len(files) : files[i].path = obj.path

\* FileGroup.append_to(dictionary, stat, value, key); every group of a
\* dictionary of stat carries that stat, so the TypeError is never raised
append_to(dict, value, key) ==
  LET d1 == IF HasKey(dict, key) THEN dict
            ELSE Append(dict, [key |-> key, files |-> <<>>])
      i == KeyIndex(d1, key)
  IN [d1 EXCEPT ![i].files = Append(@, value)]

RECURSIVE add_unique(_, _)
\* FileGroup.add_unique(values)
add_unique(files, values) ==
  IF values = <<>> THEN files
  ELSE add_unique(IF HasFile(files, Head(values)) THEN files
                  ELSE Append(files, Head(values)),
                  Tail(values))

(***************************************************************************)
(* compScan: FileScanner                                                   *)
(***************************************************************************)
\* FileScanner.run: the walk, roots as given, rglob order inside a root
Walk(ds) ==
  Concat([i \in 1..Len(ds) |->
            SeqOfSet({p \in Paths : Under(p, ds[i])})])

\* FileScanner.__is_valid_ext: the extension test
is_valid_ext(p) == exts = <<>> \/ suffix[p] \in SeqToSet(exts)

\* variant: the predicate is not asked
MatchingKeys_Any(dict, stat, hash) == 1..Len(dict)

\* variant: the loop stops at the first key that matches
MatchingKeys_FirstOnly(dict, stat, hash) ==
  LET all == {i \in 1..Len(dict) : is_match(stat, dict[i].key, hash)}
  IN {i \in all : \A j \in all : i <= j}

\* __append_hash_dict, loop "for key in group": the keys the file joins
MatchingKeys(dict, stat, hash) ==
  {i \in 1..Len(dict) : is_match(stat, dict[i].key, hash)}

\* __append_hash_dict, body of "for stat, group in hash_dict.items()"
StatStep(entry, obj) ==
  LET stat == entry.stat
      dict == entry.dict
      value == current_stats(obj.path)[stat]
      hash == to_hash(stat, value)
      idx == MatchingKeys(dict, stat, hash)
      d1 == [i \in 1..Len(dict) |->
               IF i \in idx THEN [dict[i] EXCEPT !.files = Append(@, obj)]
               ELSE dict[i]]
      idxSeq == SeqOfSet(idx)
      l1 == [j \in 1..Len(idxSeq) |->
               [stat |-> stat, str |-> hash_to_str(stat, dict[idxSeq[j]].key)]]
      own == ~HasKey(dict, hash)
  IN [entry |-> [stat |-> stat,
                 dict |-> IF own THEN append_to(d1, obj, hash) ELSE d1],
      logdata |-> IF own
                  THEN Append(l1, [stat |-> stat, str |-> to_str(stat, value)])
                  ELSE l1]

\* FileScanner.__append_hash_dict(hash_dict, path).  errAt = 0: nothing
\* raises; errAt = -1: File(path) raises; errAt = k >= 1: hashing the k-th
\* dimension raises, after dimensions 1..k-1 were updated in place
append_hash_dict(hd, obj, errAt) ==
  LET upto == IF errAt = 0 THEN Len(hd) ELSE IF errAt < 0 THEN 0 ELSE errAt - 1
      res == [i \in 1..Len(hd) |-> StatStep(hd[i], obj)]
  IN [hd |-> [i \in 1..Len(hd) |-> IF i <= upto THEN res[i].entry ELSE hd[i]],
      logdata |-> Concat([i \in 1..upto |-> res[i].logdata]),
      err |-> errAt # 0]

RECURSIVE Combine_KeepSingles(_, _, _)
\* variant: groups of a single file are not removed
Combine_KeepSingles(stat, dict, combo) ==
  IF dict = <<>> THEN combo
  ELSE LET hash == Head(dict).key
           files == Head(dict).files
           hits == {i \in 1..Len(combo) : is_match(stat, hash, combo[i].key)}
           next ==
             IF ~combine THEN Append(combo, [key |-> hash, files |-> files])
             ELSE IF hits # {}
               THEN [i \in 1..Len(combo) |->
                       IF i \in hits
                       THEN [combo[i] EXCEPT !.files = add_unique(@, files)]
                       ELSE combo[i]]
             ELSE Append(combo, [key |-> hash, files |-> files])
       IN Combine_KeepSingles(stat, Tail(dict), next)

RECURSIVE Combine_FirstHit(_, _, _)
\* variant: the loop over combo stops at the first key that matches
Combine_FirstHit(stat, dict, combo) ==
  IF dict = <<>> THEN combo
  ELSE LET hash == Head(dict).key
           files == Head(dict).files
           hits == {i \in 1..Len(combo) : is_match(stat, hash, combo[i].key)}
           first == CHOOSE i \in hits : \A j \in hits : i <= j
           next ==
             IF Len(files) < 2 THEN combo
             ELSE IF ~combine THEN Append(combo, [key |-> hash, files |-> files])
             ELSE IF hits # {}
               THEN [combo EXCEPT ![first].files = add_unique(@, files)]
             ELSE Append(combo, [key |-> hash, files |-> files])
       IN Combine_FirstHit(stat, Tail(dict), next)

RECURSIVE Combine(_, _, _)
\* __clean_hash_dict: the loop over group.items() of one dimension
Combine(stat, dict, combo) ==
  IF dict = <<>> THEN combo
  ELSE LET hash == Head(dict).key
           files == Head(dict).files
           hits == {i \in 1..Len(combo) : is_match(stat, hash, combo[i].key)}
           next ==
             IF Len(files) < 2 THEN combo
             ELSE IF ~combine THEN Append(combo, [key |-> hash, files |-> files])
             ELSE IF hits # {}
               THEN [i \in 1..Len(combo) |->
                       IF i \in hits
                       THEN [combo[i] EXCEPT !.files = add_unique(@, files)]
                       ELSE combo[i]]
             ELSE Append(combo, [key |-> hash, files |-> files])
       IN Combine(stat, Tail(dict), next)

\* FileScanner.__clean_hash_dict(hash_dict): the list of FileGroups
clean_hash_dict(hd) ==
  Concat([i \in 1..Len(hd) |->
            LET combo == Combine(hd[i].stat, hd[i].dict, <<>>)
            IN [j \in 1..Len(combo) |->
                  [stat |-> hd[i].stat, files |-> combo[j].files]]])

(***************************************************************************)
(* compCsv / compLog: the scan log                                         *)
(***************************************************************************)
\* variant: only the first KEY row of a dimension is written
LogBlock_OnePerStat(obj, logdata) ==
  <<[kind |-> "FILE", path |-> obj.path,
     cells |-> [s \in Stats |-> to_str(s, current_stats(obj.path)[s])]]>>
  \o [j \in 1..Len(SeqOfSet({i \in 1..Len(logdata) :
                                \A h \in 1..(i - 1) : logdata[h].stat # logdata[i].stat})) |->
        LET i == SeqOfSet({k \in 1..Len(logdata) :
                             \A h \in 1..(k - 1) : logdata[h].stat # logdata[k].stat})[j]
        IN [kind |-> "KEY", stat |-> logdata[i].stat, val |-> logdata[i].str]]

\* CSVParser.add_log(file, hashes): the FILE row and its KEY rows
LogBlock(obj, logdata) ==
  <<[kind |-> "FILE", path |-> obj.path,
     cells |-> [s \in Stats |-> to_str(s, current_stats(obj.path)[s])]]>>
  \o [j \in 1..Len(logdata) |->
        [kind |-> "KEY", stat |-> logdata[j].stat, val |-> logdata[j].str]]

\* CSVParser.add_log(skip=ext)
SkipRow(ext) == [kind |-> "SKIP", ext |-> ext]

\* the value _read_cell returns for an empty cell
None == "None"

\* CSVParser._read_cell(col, row): "return row[idx] or None"
read_cell(text) == IF text = "" THEN None ELSE text

HdHas(hd, stat) == \E i \in 1..Len(hd) : hd[i].stat = stat
HdIndex(hd, stat) == CHOOSE i \in 1..Len(hd) : hd[i].stat = stat

\* from_metric: _METRIC_RE matches the text (it starts with a digit or a dot)
MetricMatches(str) == str.whole >= 0

\* FilePlugin.from_str(stat, text) returns a value
Parses(stat, text) == stat = "SIZE" => MetricMatches(text)

\* read_log raises on the row: File(path, stats=...) of a FILE row calls
\* from_str on every stat cell; a KEY row whose File is set calls
\* EnumGet.get on the dimension name and str_to_hash on the value
RowRaises(row, file) ==
  \/ row.kind = "FILE" /\ \E st \in Stats : ~Parses(st, row.cells[st])
  \/ /\ row.kind = "KEY" /\ file # <<>>
     /\ (row.stat \notin Stats \/ ~Parses(row.stat, row.val))

RECURSIVE ReadRows(_, _, _)
\* CSVParser.read_log: the loop over the rows; acc holds hash_dict,
\* skipped, scanned, the File of the last FILE row, the objects built, the
\* rows reported by printerr and whether a row raised
ReadRows(rows, n, acc) ==
  IF n > Len(rows) \/ acc.raised THEN acc
  ELSE LET row == rows[n]
           next ==
             IF RowRaises(row, acc.file) THEN [acc EXCEPT !.raised = TRUE]
             ELSE IF row.kind = "FILE"
               THEN LET obj == [path |-> row.path, copy |-> acc.made[row.path] + 1]
                    IN [acc EXCEPT !.file = <<obj>>,
                                   !.scanned = @ \cup {row.path},
                                   !.made[row.path] = @ + 1]
             ELSE IF row.kind = "SKIP"
               THEN [acc EXCEPT !.skipped = @ \cup {read_cell(row.ext)}, !.file = <<>>]
             ELSE IF row.kind # "KEY" THEN [acc EXCEPT !.diag = Append(@, n)]
             ELSE IF acc.file = <<>> THEN [acc EXCEPT !.diag = Append(@, n)]
             ELSE LET stat == row.stat
                      hash == str_to_hash(stat, row.val)
                      hd1 == IF HdHas(acc.hd, stat) THEN acc.hd
                             ELSE Append(acc.hd, [stat |-> stat, dict |-> <<>>])
                      i == HdIndex(hd1, stat)
                  IN [acc EXCEPT !.hd =
                        [hd1 EXCEPT ![i].dict = append_to(@, acc.file[1], hash)]]
       IN ReadRows(rows, n + 1, next)

\* variant: the hash_dict of the previous run is used again
EmptyHashDict_Stale(enums) ==
  IF matches # <<>> THEN matches
  ELSE [i \in 1..Len(enums) |-> [stat |-> enums[i], dict |-> <<>>]]

\* CSVLog.open(default_enums): the empty hash_dict
EmptyHashDict(enums) == [i \in 1..Len(enums) |-> [stat |-> enums[i], dict |-> <<>>]]

\* CSVParser.read_log(filepath, plugins, hash_dict)
read_log(rows, hd) ==
  ReadRows(rows, 1, [hd |-> hd, skipped |-> {}, scanned |-> {},
                     file |-> <<>>, made |-> [p \in Paths |-> 0],
                     diag |-> <<>>, raised |-> FALSE])

(***************************************************************************)
(* compAlgos: KeepAlgorithms, and FileAlgos of compFilePlugin              *)
(***************************************************************************)
TimeVar == 0

\* the value a narrowing function reads from a File
AlgoValue(attr, obj, array) ==
  LET p == obj.path
      hits == {i \in 1..Len(array) :
                 IF attr = "ext" THEN suffix[p] = array[i]
                 ELSE Under(p, array[i])}
  IN CASE attr = "size" -> size[p]
       [] attr = "mtime" -> mtime[p]
       [] attr = "ctime" -> ctime[p]
       [] attr = "name" -> Len(PathTable[p].stem)
       \* array_index_algo.get_idx
       [] OTHER -> IF hits = {} THEN -1
                   ELSE Len(array) - ((CHOOSE i \in hits : \A j \in hits : i <= j) - 1)

RECURSIVE MinMaxLoop(_, _, _, _)
\* min_max_algo.min_max_val: the loop over files; st.rng is <<>> for None
\* and <<start, stop>> for range(start, stop)
MinMaxLoop(algo, files, n, st) ==
  IF n > Len(files) THEN st.result
  ELSE LET curr == AlgoValue(algo.attr, files[n], algo.array)
           comp == IF algo.is_min THEN curr < st.rng[1] ELSE curr > st.rng[2]
           inRng == IF algo.variance # 0
                    THEN curr >= st.rng[1] /\ curr < st.rng[2]
                    ELSE curr = st.rng[1]
           next ==
             IF st.rng = <<>> \/ comp
               THEN [result |-> <<files[n]>>,
                     rng |-> <<curr - algo.variance, curr + algo.variance>>]
             ELSE IF inRng THEN [st EXCEPT !.result = Append(@, files[n])]
             ELSE st
       IN MinMaxLoop(algo, files, n + 1, next)

\* KeepAlgorithms.min_max_algo(get_value, is_min, variance)(files)
min_max_algo(algo, files) ==
  MinMaxLoop(algo, files, 1, [result |-> <<>>, rng |-> <<>>])

\* KeepAlgorithms.pass_test_algo(test_func)(files), test_func being
\* "the path is under one of locs"
pass_test_algo(locs, files) ==
  SelectSeq(files, LAMBDA f : \E loc \in locs : Under(f.path, loc))

\* KeepAlgorithms.array_index_algo(array, file_matches_value)(files)
array_index_algo(algo, files) ==
  IF algo.array = <<>> THEN files ELSE min_max_algo(algo, files)

\* one narrowing function applied to the candidates
ApplyAlgo(algo, files) ==
  IF algo.kind = "array" THEN array_index_algo(algo, files)
  ELSE IF algo.kind = "test" THEN pass_test_algo(algo.locs, files)
  ELSE min_max_algo(algo, files)

MinMax(attr, is_min, variance) ==
  [kind |-> "minmax", attr |-> attr, is_min |-> is_min,
   variance |-> variance, array |-> <<>>]

ArrayIndex(attr, array) ==
  [kind |-> "array", attr |-> attr, is_min |-> TRUE, variance |-> 0,
   array |-> array]

PassTest(locs) == [kind |-> "test", locs |-> locs]

\* the algorithms of a provider whose ALGO_BUILDER extends KeepAlgorithms
\* with a pass_test_algo for groups by name: the files under root "B",
\* then the shortest name
LabelAlgos == << PassTest({"B"}), MinMax("name", TRUE, 0) >>

\* FileAlgos.__init__: the narrowing functions and their order
FileAlgos(stat) ==
  LET min_name == MinMax("name", TRUE, 0)
      max_size == MinMax("size", FALSE, sizeVar)
      oldest_ctime == MinMax("ctime", TRUE, TimeVar)
      newest_mtime == MinMax("mtime", FALSE, TimeVar)
      pref_exts == ArrayIndex("ext", exts)
      pref_loc == ArrayIndex("loc", dirs)
  IN IF stat = "SIZE"
     THEN <<newest_mtime, pref_exts, pref_loc, min_name>>
     ELSE <<max_size, pref_exts, pref_loc, min_name, newest_mtime, oldest_ctime>>

(***************************************************************************)
(* compKeep: FileAutoKeeper                                                *)
(***************************************************************************)
\* variant: all() in place of any()
has_keep_all(files, k) == \A i \in 1..Len(files) : files[i] \in k

\* variant: the test is negated
has_keep_inverted(files, k) == ~(\E i \in 1..Len(files) : files[i] \in k)

\* FileAutoKeeper.has_keep(files)
has_keep(files, k) == \E i \in 1..Len(files) : files[i] \in k

\* FileAutoKeeper.get_algos(files): the list registered for the stat of the
\* group by the last provider that names it (FileAutoKeeper.init), else the
\* default list of FilePlugin
get_algos(group) ==
  IF group.stat = "NAME" /\ "LabelPlugin" \in SeqToSet(plugins) THEN LabelAlgos
  ELSE FileAlgos(group.stat)

RECURSIVE Whittle(_, _)
\* FileAutoKeeper.run: the loop "for func in self.get_algos(files)"
Whittle(algos, cands) ==
  IF algos = <<>> \/ Len(cands) < 2 THEN cands
  ELSE Whittle(Tail(algos), ApplyAlgo(Head(algos), cands))

\* FileAutoKeeper.init: not_rm_path is set when rm_paths is
HasOverride == rmPaths # {}

\* variant: the last candidate is kept
run_KeepLast(group, k) ==
  IF HasOverride
    THEN k \cup SeqToSet(pass_test_algo(rmPaths, group.files))
  ELSE IF has_keep(group.files, k) THEN k
  ELSE LET found == Whittle(get_algos(group), group.files)
       IN IF found # <<>> THEN k \cup {found[Len(found)]} ELSE k

\* variant: with no candidate left the first member is kept
run_KeepWhenEmpty(group, k) ==
  IF HasOverride
    THEN k \cup SeqToSet(pass_test_algo(rmPaths, group.files))
  ELSE IF has_keep(group.files, k) THEN k
  ELSE LET found == Whittle(get_algos(group), group.files)
       IN IF found # <<>> THEN k \cup {found[1]} ELSE k \cup {group.files[1]}

\* FileAutoKeeper.run(files): the keep flags afterwards
run(group, k) ==
  IF HasOverride
    THEN k \cup SeqToSet(pass_test_algo(rmPaths, group.files))
  ELSE IF has_keep(group.files, k) THEN k
  ELSE LET found == Whittle(get_algos(group), group.files)
       IN IF found # <<>> THEN k \cup {found[1]} ELSE k

(***************************************************************************)
(* compSanit: check_data and clean_data                                    *)
(***************************************************************************)
\* variant: the groups are numbered from 1
check_data_OneBased(fd, k) ==
  LET to_delete == Concat([g \in 1..Len(fd) |->
                             SelectSeq(fd[g].files, LAMBDA f : f \notin k)])
      keeping == {g \in 1..Len(fd) : fd[g].files # <<>>}
      deleteing == {g \in keeping :
                      \A i \in 1..Len(fd[g].files) : fd[g].files[i] \notin k}
  IN [to_delete |-> to_delete,
      warning |-> IF deleteing = {} THEN "none"
                  ELSE IF Cardinality(deleteing) = Cardinality(keeping)
                    THEN "all" ELSE "these",
      groups |-> IF deleteing = {} \/ Cardinality(deleteing) = Cardinality(keeping)
                 THEN {} ELSE deleteing]

\* variant: the keep flag is not looked at when the candidates are collected
check_data_EveryFile(fd, k) ==
  LET to_delete == Concat([g \in 1..Len(fd) |-> fd[g].files])
      keeping == {g \in 1..Len(fd) : fd[g].files # <<>>}
      deleteing == {g \in keeping :
                      \A i \in 1..Len(fd[g].files) : fd[g].files[i] \notin k}
  IN [to_delete |-> to_delete,
      warning |-> IF deleteing = {} THEN "none"
                  ELSE IF Cardinality(deleteing) = Cardinality(keeping)
                    THEN "all" ELSE "these",
      groups |-> IF deleteing = {} \/ Cardinality(deleteing) = Cardinality(keeping)
                 THEN {} ELSE {g - 1 : g \in deleteing}]

\* check_data(file_data): the deletion candidates and the warning
check_data(fd, k) ==
  LET to_delete == Concat([g \in 1..Len(fd) |->
                             SelectSeq(fd[g].files, LAMBDA f : f \notin k)])
      keeping == {g \in 1..Len(fd) : fd[g].files # <<>>}
      deleteing == {g \in keeping :
                      \A i \in 1..Len(fd[g].files) : fd[g].files[i] \notin k}
  IN [to_delete |-> to_delete,
      warning |-> IF deleteing = {} THEN "none"
                  ELSE IF Cardinality(deleteing) = Cardinality(keeping)
                    THEN "all" ELSE "these",
      \* the indexes printed are those of enumerate(), from 0
      groups |-> IF deleteing = {} \/ Cardinality(deleteing) = Cardinality(keeping)
                 THEN {} ELSE {g - 1 : g \in deleteing}]

FileStats == {"NAME", "SIZE", "CTIME", "MTIME"}

\* File.match_count(other, max_matches) for max_matches >= 1
match_count(a, b, max_matches) ==
  IF a = b THEN max_matches
  ELSE LET n == Cardinality({s \in FileStats :
                    CASE s = "NAME" ->
                           is_match("NAME", to_hash("NAME", PathTable[a.path].stem),
                                    to_hash("NAME", PathTable[b.path].stem))
                      [] s = "SIZE" -> is_match("SIZE", size[a.path], size[b.path])
                      [] s = "CTIME" ->
                           range_matcher(TimeVar, ctime[a.path], ctime[b.path])
                      [] OTHER ->
                           range_matcher(TimeVar, mtime[a.path], mtime[b.path])})
       IN Min2(n, max_matches)

\* get_matches(files, matcher, removed): the indexes that share at least
\* min_stats stats with another member that is not removed
get_matches(files, min_stats, removed) ==
  {i \in (1..Len(files)) \ removed :
     \E j \in (1..Len(files)) \ removed :
        j # i /\ match_count(files[i], files[j], min_stats) >= min_stats}

RECURSIVE PopAll(_, _)
\* clean_data: "for i in reversed(removed): files.pop(i)"
PopAll(files, removed) ==
  IF removed = <<>> THEN files
  ELSE LET i == removed[Len(removed)]
       IN PopAll(SubSeq(files, 1, i - 1) \o SubSeq(files, i + 1, Len(files)),
                 SubSeq(removed, 1, Len(removed) - 1))

\* variant: the single-member test does not look at clean_solo
RemovedOf_AlwaysSolo(files, clean_solo, min_stats) ==
  LET r0 == {i \in 1..Len(files) : files[i].path \notin exists}
      r1 == IF min_stats # 0
            THEN r0 \cup ((1..Len(files)) \ get_matches(files, min_stats, r0))
            ELSE r0
  IN IF Cardinality(r1) + 1 = Len(files)
     THEN 1..Len(files) ELSE r1

\* variant: a single member left is not removed
RemovedOf_NeverSolo(files, clean_solo, min_stats) ==
  LET r0 == {i \in 1..Len(files) : files[i].path \notin exists}
  IN IF min_stats # 0
     THEN r0 \cup ((1..Len(files)) \ get_matches(files, min_stats, r0))
     ELSE r0

\* clean_data: body of the loop over the groups; the indexes to pop
RemovedOf(files, clean_solo, min_stats) ==
  LET r0 == {i \in 1..Len(files) : files[i].path \notin exists}
      r1 == IF min_stats # 0
            THEN r0 \cup ((1..Len(files)) \ get_matches(files, min_stats, r0))
            ELSE r0
  IN IF clean_solo /\ Cardinality(r1) + 1 = Len(files)
     THEN 1..Len(files) ELSE r1

\* clean_data(file_data, clean_solo, clean_kept, min_stats)
clean_data(fd, clean_solo, clean_kept, min_stats, k) ==
  LET removed == [g \in 1..Len(fd) |->
                    SeqOfSet(RemovedOf(fd[g].files, clean_solo, min_stats))]
      popped == [g \in 1..Len(fd) |->
                   [fd[g] EXCEPT !.files = PopAll(@, removed[g])]]
      empty == {g \in 1..Len(fd) :
                  IF clean_kept
                  THEN \A i \in 1..Len(popped[g].files) : popped[g].files[i] \in k
                  ELSE popped[g].files = <<>>}
      left == SeqOfSet((1..Len(fd)) \ empty)
  IN [data |-> [n \in 1..Len(left) |-> popped[left[n]]],
      count |-> Len(Concat(removed)),
      groups |-> Cardinality(empty)]

(***************************************************************************)
(* compCsv: the snapshot file                                              *)
(***************************************************************************)
\* CSVParser.write: one row per member of every group
CsvRows(fd, k) ==
  Concat([g \in 1..Len(fd) |->
            [i \in 1..Len(fd[g].files) |->
               [group |-> g - 1, stat |-> fd[g].stat,
                path |-> fd[g].files[i].path, keep |-> fd[g].files[i] \in k]]])

\* CSVParser.read: the groups, in the order of their ids; a path that
\* occurs in several rows is one File object (find_nested)
CsvGroups(rows) ==
  LET ids == SeqOfSet({rows[i].group : i \in 1..Len(rows)})
  IN [n \in 1..Len(ids) |->
        LET mine == SelectSeq(rows, LAMBDA r : r.group = ids[n])
        IN [stat |-> mine[1].stat,
            files |-> [i \in 1..Len(mine) |-> [path |-> mine[i].path, copy |-> 1]]]]

\* CSVParser.read: keep of a File is the Keep cell of its first row
CsvKept(rows) ==
  {[path |-> rows[i].path, copy |-> 1] : i \in
     {i \in 1..Len(rows) :
        rows[i].keep /\ \A j \in 1..(i - 1) : rows[j].path # rows[i].path}}

(***************************************************************************)
(* The initial state: a controller just constructed, no log, no snapshot   *)
(***************************************************************************)
Configs ==
  { [dirs |-> <<"A", "B">>, exts |-> <<>>, groupBy |-> <<"SIZE">>,
     sizeVar |-> 1, combine |-> TRUE],
    [dirs |-> <<"A", "B">>, exts |-> <<".jpg">>, groupBy |-> <<"NAME", "SIZE">>,
     sizeVar |-> 0, combine |-> TRUE],
    [dirs |-> <<"B", "A">>, exts |-> <<>>, groupBy |-> <<"SIZE", "NAME">>,
     sizeVar |-> 1, combine |-> FALSE],
    [dirs |-> <<"A", "P">>, exts |-> <<>>, groupBy |-> <<"SIZE">>,
     sizeVar |-> 0, combine |-> TRUE],
    [dirs |-> <<"A", "P">>, exts |-> <<".png", ".jpg">>, groupBy |-> <<"NAME">>,
     sizeVar |-> 1, combine |-> FALSE],
    [dirs |-> <<"B", "A">>, exts |-> <<>>, groupBy |-> <<"SIZE">>,
     sizeVar |-> 0, combine |-> FALSE],
    [dirs |-> <<"B", "P">>, exts |-> <<>>, groupBy |-> <<"SIZE">>,
     sizeVar |-> 1, combine |-> TRUE] }
NoOp == [op |-> "none"]
NoCsv == [exists |-> FALSE, rows |-> <<>>]

Fresh ==
  /\ data = <<>>
  /\ kept = {}
  /\ pc = "idle"
  /\ pos = 1
  /\ made = [p \in Paths |-> 0]
  /\ matches = <<>>
  /\ skipped = {}
  /\ scanned = {}
  /\ trace = <<>>
  /\ hadError = FALSE
  /\ scanResult = <<>>
  /\ lastScan = "none"
  /\ lastOp = NoOp
  /\ ops = 0

Init ==
  /\ \E c \in Configs :
       /\ dirs = c.dirs
       /\ exts = c.exts
       /\ groupBy = c.groupBy
       /\ sizeVar = c.sizeVar
       /\ combine = c.combine
  /\ size \in [Paths -> SizeVals]
  /\ mtime = [p \in Paths |-> 1 + (p % 2)]
  /\ ctime = [p \in Paths |-> 1]
  /\ exists = Paths
  /\ rmPaths = {}
  /\ cleanFilter = 0
  /\ plugins = <<"FilePlugin">>
  /\ suffix = [p \in Paths |-> PathTable[p].ext]
  /\ csv = NoCsv
  /\ log = <<>>
  /\ logExists = FALSE
  /\ Fresh

(***************************************************************************)
(* ComparisonController.scan = FileScanner.run, one step per walk entry    *)
(***************************************************************************)
\* the last operation was a scan from a new log that ran to its end with no
\* interruption and no error
PlainScanReturned ==
  /\ lastScan = "complete"
  /\ lastOp.op = "scan" /\ ~lastOp.resume
  /\ trace = <<>> /\ ~hadError

\* what CSVLog.open gets from CSVParser.read_log when the scan is resumed
Replay == read_log(log, EmptyHashDict(groupBy))

\* CSVLog.open: resume from the log, or start a new one.  An exception of
\* read_log is caught nowhere: it ends FileScanner.run and scan
ScanStart(resume) ==
  /\ pc = "idle" /\ ops < MaxOps
  /\ resume => logExists
  /\ IF resume
       THEN LET r == Replay
            IN /\ matches' = IF r.raised THEN <<>> ELSE r.hd
               /\ skipped' = IF r.raised THEN {} ELSE r.skipped
               /\ scanned' = IF r.raised THEN {} ELSE r.scanned
               /\ made' = IF r.raised THEN [p \in Paths |-> 0] ELSE r.made
               /\ UNCHANGED << log, trace, hadError >>
       ELSE /\ matches' = EmptyHashDict(groupBy)
            /\ skipped' = {}
            /\ scanned' = {}
            /\ made' = [p \in Paths |-> 0]
            /\ log' = <<>>
            /\ trace' = <<>>
            /\ hadError' = FALSE
  /\ logExists' = TRUE
  /\ pc' = IF resume /\ Replay.raised THEN "idle" ELSE "scanning"
  /\ pos' = 1
  /\ ops' = ops + 1
  /\ lastOp' = [op |-> "scan", resume |-> resume,
                previous |-> IF PlainScanReturned THEN <<scanResult>> ELSE <<>>,
                failed |-> <<>>,
                diag |-> IF resume THEN Replay.diag ELSE <<>>]
  /\ lastScan' = IF resume /\ Replay.raised THEN "aborted" ELSE "running"
  /\ UNCHANGED << envVars, exists, data, kept, csv, scanResult >>

\* FileScanner.run: the entry of the walk is not hashed
Passed(p) == p \in scanned \/ p \notin exists \/ ~is_valid_ext(p)

\* FileScanner.run: body of "for path in dir.rglob('*')"
ScanStep(errAt) ==
  /\ pc = "scanning" /\ pos <= Len(Walk(dirs))
  /\ errAt \in -1..Len(matches)
  /\ errAt # 0 => ~hadError
  /\ LET p == Walk(dirs)[pos]
         obj == [path |-> p, copy |-> made[p] + 1]
         r == append_hash_dict(matches, obj, errAt)
     IN IF p \in scanned \/ p \notin exists
          THEN /\ errAt = 0
               /\ UNCHANGED << matches, skipped, made, log, hadError, lastOp >>
        ELSE IF ~is_valid_ext(p)
          THEN /\ errAt = 0
               /\ skipped' = skipped \cup {suffix[p]}
               /\ log' = IF suffix[p] \in skipped THEN log
                         ELSE Append(log, SkipRow(suffix[p]))
               /\ UNCHANGED << matches, made, hadError, lastOp >>
        ELSE /\ matches' = r.hd
             /\ made' = [made EXCEPT ![p] = @ + 1]
             /\ log' = IF r.err THEN log ELSE log \o LogBlock(obj, r.logdata)
             /\ hadError' = (hadError \/ r.err)
             /\ lastOp' = IF r.err
                           THEN [lastOp EXCEPT
                                   !.failed = <<[obj |-> obj, pos |-> pos, dim |-> errAt]>>]
                           ELSE lastOp
             /\ UNCHANGED skipped
  /\ pos' = pos + 1
  /\ UNCHANGED << envVars, exists, data, kept, csv, pc, scanned, logExists,
                  trace, scanResult, lastScan, ops >>

\* the process is killed: what is left is the log and the snapshot, and
\* the next controller starts from its constructor
Killed ==
  /\ data' = <<>>
  /\ kept' = {}
  /\ pc' = "idle"
  /\ pos' = 1
  /\ made' = [p \in Paths |-> 0]
  /\ matches' = <<>>
  /\ skipped' = {}
  /\ scanned' = {}
  /\ lastScan' = "interrupted"
  /\ UNCHANGED << envVars, exists, csv, logExists, hadError, scanResult, lastOp, ops >>

\* KeyboardInterrupt between two entries of the walk
ScanInterrupt ==
  /\ pc = "scanning" /\ Len(trace) < MaxInterrupts
  /\ trace' = Append(trace, [pos |-> pos - 1, mid |-> FALSE])
  /\ UNCHANGED log
  /\ Killed

\* KeyboardInterrupt inside CSVParser.add_log, after cut rows of the block
\* were written; leaving the "with" block flushes them to the file
ScanInterruptInLog(cut) ==
  /\ pc = "scanning" /\ Len(trace) < MaxInterrupts
  /\ pos <= Len(Walk(dirs))
  /\ ~Passed(Walk(dirs)[pos])
  /\ LET p == Walk(dirs)[pos]
         obj == [path |-> p, copy |-> made[p] + 1]
         block == LogBlock(obj, append_hash_dict(matches, obj, 0).logdata)
     IN /\ cut \in 1..(Len(block) - 1)
        /\ log' = log \o SubSeq(block, 1, cut)
  /\ trace' = Append(trace, [pos |-> pos - 1, mid |-> TRUE])
  /\ Killed

\* FileScanner.run: "return self.__clean_hash_dict(matches)"
ScanFinish ==
  /\ pc = "scanning" /\ pos = Len(Walk(dirs)) + 1
  /\ data' = clean_hash_dict(matches)
  /\ scanResult' = data'
  /\ kept' = {}
  /\ pc' = "idle"
  /\ lastScan' = "complete"
  /\ UNCHANGED << envVars, exists, csv, pos, made, matches, skipped, scanned,
                  log, logExists, trace, hadError, lastOp, ops >>

(***************************************************************************)
(* The other operations of ComparisonController                            *)
(***************************************************************************)
\* ComparisonController.load_csv
LoadCsv ==
  /\ pc = "idle" /\ ops < MaxOps
  /\ csv.exists
  /\ data' = CsvGroups(csv.rows)
  /\ kept' = CsvKept(csv.rows)
  /\ ops' = ops + 1
  /\ lastOp' = [op |-> "load_csv"]
  /\ UNCHANGED << envVars, exists, csv, scanVars, log, logExists, histVars >>

\* variant: the answer to "CSV exists. Overwrite" is not looked at
write_IgnoresAnswer(file, fd, k, outcome) ==
  IF outcome # "failed"
    THEN [csv |-> [exists |-> TRUE, rows |-> CsvRows(fd, k)], written |-> TRUE]
  ELSE [csv |-> file, written |-> FALSE]

\* CSVParser.write(filepath, data, plugins): the file afterwards and the
\* value returned
write(file, fd, k, outcome) ==
  IF outcome = "ok"
    THEN [csv |-> [exists |-> TRUE, rows |-> CsvRows(fd, k)], written |-> TRUE]
  ELSE [csv |-> file, written |-> FALSE]

\* ComparisonController.save_csv; outcome: the file was written ("ok"),
\* the overwrite was declined, or opening the file failed
SaveCsv(outcome) ==
  /\ pc = "idle" /\ ops < MaxOps
  /\ outcome \in {"ok", "declined", "failed"}
  /\ outcome = "declined" => csv.exists
  /\ LET w == write(csv, data, kept, outcome)
     IN /\ csv' = w.csv
        \* FileScanner.cleanup -> CSVLog.remove
        /\ logExists' = IF w.written THEN FALSE ELSE logExists
        /\ log' = IF w.written THEN <<>> ELSE log
  /\ ops' = ops + 1
  /\ lastOp' = [op |-> "save_csv", outcome |-> outcome]
  /\ UNCHANGED << envVars, exists, data, kept, scanVars, histVars >>

RECURSIVE RunAll_SkipLast(_, _, _)
\* variant: the loop stops one group early
RunAll_SkipLast(fd, n, k) ==
  IF n >= Len(fd) THEN k
  ELSE RunAll_SkipLast(fd, n + 1,
                       IF fd[n].stat \in SeqToSet(groupBy) THEN run(fd[n], k) ELSE k)

RECURSIVE RunAll(_, _, _)
\* ComparisonController.auto_keep: the loop over self._data
RunAll(fd, n, k) ==
  IF n > Len(fd) THEN k
  ELSE RunAll(fd, n + 1,
              IF fd[n].stat \in SeqToSet(groupBy) THEN run(fd[n], k) ELSE k)

\* ComparisonController.auto_keep
auto_keep(fd, k) ==
  LET cleaned == clean_data(fd, FALSE, FALSE, 0, k).data
  IN [data |-> cleaned, kept |-> RunAll(cleaned, 1, k)]

AutoKeep ==
  /\ pc = "idle" /\ ops < MaxOps
  /\ LET r == auto_keep(data, kept)
     IN data' = r.data /\ kept' = r.kept
  /\ ops' = ops + 1
  /\ lastOp' = [op |-> "auto_keep", prev |-> lastOp.op, before |-> kept]
  /\ UNCHANGED << envVars, exists, csv, scanVars, log, logExists, histVars >>

\* ComparisonController.reset_keep(value)
ResetKeep(value) ==
  /\ pc = "idle" /\ ops < MaxOps
  /\ kept' = IF value
             THEN UNION {SeqToSet(data[g].files) : g \in 1..Len(data)}
             ELSE kept \ UNION {SeqToSet(data[g].files) : g \in 1..Len(data)}
  /\ ops' = ops + 1
  /\ lastOp' = [op |-> "reset_keep", value |-> value]
  /\ UNCHANGED << envVars, exists, data, csv, scanVars, log, logExists, histVars >>

\* ComparisonController.clean(clean_solo, clean_kept, use_filter)
Clean(clean_solo, clean_kept, use_filter) ==
  /\ pc = "idle" /\ ops < MaxOps
  /\ LET min_stats == IF use_filter THEN cleanFilter ELSE 0
         r == clean_data(data, clean_solo, clean_kept, min_stats, kept)
     IN /\ data' = r.data
        /\ lastOp' = [op |-> "clean", clean_solo |-> clean_solo,
                      clean_kept |-> clean_kept, min_stats |-> min_stats,
                      before |-> data, count |-> r.count, groups |-> r.groups]
  /\ ops' = ops + 1
  /\ UNCHANGED << envVars, exists, kept, csv, scanVars, log, logExists, histVars >>

Next ==
  \/ \E resume \in BOOLEAN : ScanStart(resume)
  \/ \E errAt \in -1..2 : ScanStep(errAt)
  \/ ScanInterrupt
  \/ \E cut \in 1..4 : ScanInterruptInLog(cut)
  \/ ScanFinish
  \/ LoadCsv
  \/ \E outcome \in {"ok", "declined", "failed"} : SaveCsv(outcome)
  \/ AutoKeep
  \/ \E value \in BOOLEAN : ResetKeep(value)
  \/ \E cs, ck, uf \in BOOLEAN : Clean(cs, ck, uf)

Spec == Init /\ [][Next]_vars

(***************************************************************************)
(* The keeper and the sanitizer on a loaded snapshot.  The initial state   *)
(* is a controller that has just loaded a snapshot whose Keep column the   *)
(* user may have edited.                                                   *)
(***************************************************************************)
MaxGroups == 2

KeepConfigs ==
  { [dirs |-> <<"A", "B">>, exts |-> <<".png", ".jpg">>,
     groupBy |-> <<"SIZE", "NAME">>, sizeVar |-> 1, cleanFilter |-> 3,
     rising |-> TRUE],
    [dirs |-> <<"B", "A">>, exts |-> <<>>,
     groupBy |-> <<"SIZE">>, sizeVar |-> 0, cleanFilter |-> 4,
     rising |-> FALSE] }

\* the member lists of the groups of a snapshot: at least two files each
MemberLists ==
  {[i \in 1..Len(SeqOfSet(S)) |-> [path |-> SeqOfSet(S)[i], copy |-> 1]] :
     S \in {T \in SUBSET Paths : Cardinality(T) >= 2}}

\* the group lists of a snapshot
Snapshots ==
  UNION {[1..n -> [stat : {st}, files : MemberLists]] :
           n \in 0..MaxGroups, st \in Stats}

MembersOf(fd) == UNION {SeqToSet(fd[g].files) : g \in 1..Len(fd)}

InitKeep ==
  /\ \E c \in KeepConfigs :
       /\ dirs = c.dirs
       /\ exts = c.exts
       /\ groupBy = c.groupBy
       /\ sizeVar = c.sizeVar
       /\ cleanFilter = c.cleanFilter
       /\ size = [p \in Paths |-> IF c.rising THEN 999 + p ELSE 1000]
       /\ mtime = [p \in Paths |-> IF c.rising THEN p ELSE 1 + (p % 2)]
  /\ combine = TRUE
  /\ ctime = [p \in Paths |-> 1]
  /\ exists \in {Paths, Paths \ {2}}
  /\ rmPaths \in {{}, {"B"}}
  /\ plugins = <<"FilePlugin">>
  /\ suffix = [p \in Paths |-> PathTable[p].ext]
  /\ \E fd \in Snapshots, k \in SUBSET Objs :
       /\ k \subseteq MembersOf(fd)
       /\ csv = [exists |-> TRUE, rows |-> CsvRows(fd, k)]
       /\ data = CsvGroups(csv.rows)
       /\ kept = CsvKept(csv.rows)
  /\ log = <<>>
  /\ logExists = FALSE
  /\ pc = "idle"
  /\ pos = 1
  /\ made = [p \in Paths |-> 0]
  /\ matches = <<>>
  /\ skipped = {}
  /\ scanned = {}
  /\ trace = <<>>
  /\ hadError = FALSE
  /\ scanResult = <<>>
  /\ lastScan = "none"
  /\ lastOp = [op |-> "load_csv"]
  /\ ops = 0

\* FileAutoKeeper.run(files) on group g of the data
KeeperRun(g) ==
  /\ pc = "idle" /\ ops < MaxOps
  /\ g \in 1..Len(data)
  /\ kept' = run(data[g], kept)
  /\ ops' = ops + 1
  /\ lastOp' = [op |-> "run", group |-> g, before |-> kept]
  /\ UNCHANGED << envVars, exists, data, csv, scanVars, log, logExists, histVars >>

\* ComparisonController.integrity(clean_solo, skip_clean)
Integrity(clean_solo, skip_clean) ==
  /\ pc = "idle" /\ ops < MaxOps
  /\ LET cleaned == IF skip_clean THEN data
                    ELSE clean_data(data, clean_solo, FALSE, 0, kept).data
         r == check_data(cleaned, kept)
     IN /\ data' = cleaned
        /\ lastOp' = [op |-> "integrity", to_delete |-> r.to_delete,
                      warning |-> r.warning, groups |-> r.groups]
  /\ ops' = ops + 1
  /\ UNCHANGED << envVars, exists, kept, csv, scanVars, log, logExists, histVars >>

NextKeep ==
  \/ \E g \in 1..MaxGroups : KeeperRun(g)
  \/ AutoKeep
  \/ \E cs, ck, uf \in BOOLEAN : Clean(cs, ck, uf)
  \/ \E cs, sk \in BOOLEAN : Integrity(cs, sk)

SpecKeep == InitKeep /\ [][NextKeep]_vars

(***************************************************************************)
(* Properties of the scanner and of the scan log                           *)
(***************************************************************************)
RECURSIVE RunWalk(_, _, _)
\* FileScanner.run from a new log, never interrupted, nothing raising:
\* the hash_dict after the walk
RunWalk(walk, n, st) ==
  IF n > Len(walk) THEN st.hd
  ELSE LET p == walk[n]
           obj == [path |-> p, copy |-> st.made[p] + 1]
       IN IF p \notin exists \/ ~is_valid_ext(p) THEN RunWalk(walk, n + 1, st)
          ELSE RunWalk(walk, n + 1,
                       [hd |-> append_hash_dict(st.hd, obj, 0).hd,
                        made |-> [st.made EXCEPT ![p] = @ + 1]])

Uninterrupted ==
  clean_hash_dict(RunWalk(Walk(dirs), 1,
                          [hd |-> EmptyHashDict(groupBy),
                           made |-> [p \in Paths |-> 0]]))

\* a list of groups as dimension and member paths (File.__eq__)
GroupPaths(fd) ==
  [g \in 1..Len(fd) |->
     [stat |-> fd[g].stat,
      files |-> [i \in 1..Len(fd[g].files) |-> fd[g].files[i].path]]]

\* the scan just completed was resumed once, from a log written by a run
\* that was interrupted exactly when the first root was done
ResumedAfterFirstRoot ==
  /\ lastScan = "complete"
  /\ lastOp.op = "scan" /\ lastOp.resume
  /\ ~hadError
  /\ trace = << [pos |-> Len(Walk(<<dirs[1]>>)), mid |-> FALSE] >>

\* C1: a scan of roots A,B that is interrupted when A is done, resumed from
\* the log and continued over B returns the same list of groups (dimension,
\* members, member order) as one uninterrupted scan of A,B.
C1_ResumeEquivalence ==
  ResumedAfterFirstRoot => GroupPaths(scanResult) = GroupPaths(Uninterrupted)

\* C2: the scan log is deleted only by a snapshot write that succeeded
\* after a scan that ran to completion.
C2_LogDeletedOnlyAfterCompleteScan ==
  [][(logExists /\ ~logExists') =>
       (lastScan = "complete" /\ lastOp'.op = "save_csv" /\ lastOp'.outcome = "ok")]_vars

\* the rows of the block that the FILE row at index i opens
BlockEnd(i) ==
  LET later == {j \in (i + 1)..Len(log) : log[j].kind # "KEY"}
  IN IF later = {} THEN Len(log)
     ELSE (CHOOSE j \in later : \A k \in later : j <= k) - 1

\* C3: the log holds only complete per-file blocks: every FILE record is
\* followed, before any record of a later file, by the KEY records of every
\* dimension the file was inserted into.
C3_LogHasOnlyCompleteBlocks ==
  \A i \in 1..Len(log) :
    log[i].kind = "FILE" =>
      \A d \in 1..Len(groupBy) :
        \E j \in (i + 1)..BlockEnd(i) : log[j].stat = groupBy[d]

\* a step of the walk that built a File and hashed it
StepHashed ==
  /\ pc = "scanning" /\ pc' = "scanning" /\ pos' = pos + 1
  /\ pos <= Len(Walk(dirs))
  /\ ~Passed(Walk(dirs)[pos])

\* the File built by that step, and its hash in dimension i of matches
StepObj == [path |-> Walk(dirs)[pos], copy |-> made[Walk(dirs)[pos]] + 1]
StepHash(i) ==
  to_hash(matches[i].stat, current_stats(Walk(dirs)[pos])[matches[i].stat])

\* dimension i was not reached because an error was raised before it
NotReached(i) == matches'[i] = matches[i] /\ hadError' /\ ~hadError

\* the file joins the group of the first matching key only, and opens a
\* group of its own exactly when no key matches
FirstMatchWins(i) ==
  LET dict == matches[i].dict
      hits == {k \in 1..Len(dict) : is_match(matches[i].stat, dict[k].key, StepHash(i))}
  IN matches'[i].dict =
       IF hits # {}
       THEN [dict EXCEPT ![CHOOSE k \in hits : \A j \in hits : k <= j].files =
                           Append(@, StepObj)]
       ELSE Append(dict, [key |-> StepHash(i), files |-> <<StepObj>>])

\* the file joins the group of every matching key, and opens a group of
\* its own exactly when its hash is not yet a key
EveryMatchJoins(i) ==
  LET dict == matches[i].dict
      dict2 == matches'[i].dict
      isKey == \E k \in 1..Len(dict) : dict[k].key = StepHash(i)
  IN /\ Len(dict2) = Len(dict) + (IF isKey THEN 0 ELSE 1)
     /\ \A k \in 1..Len(dict) :
          dict2[k] = IF is_match(matches[i].stat, dict[k].key, StepHash(i))
                     THEN [dict[k] EXCEPT !.files = Append(@, StepObj)]
                     ELSE dict[k]
     /\ ~isKey => dict2[Len(dict2)] = [key |-> StepHash(i), files |-> <<StepObj>>]

\* C4 as stated: a processed file is added to exactly one group of each
\* dimension, that of the first key the predicate matches, and a group keyed
\* by its own hash is created if and only if no key matches.
C4_FirstMatchOnly ==
  [][StepHashed => \A i \in 1..Len(matches) : NotReached(i) \/ FirstMatchWins(i)]_vars

\* C4 amended: a processed file is added to the group of every existing key
\* the predicate matches, and a group keyed by its own hash is created if
\* and only if that hash is not already a key, whether or not a key matched.
C4_EveryMatchingGroup ==
  [][StepHashed => \A i \in 1..Len(matches) : NotReached(i) \/ EveryMatchJoins(i)]_vars

\* some file is a member of two groups of one dimension
C4_Witness ==
  \E i \in 1..Len(matches) :
    \E k1, k2 \in 1..Len(matches[i].dict) :
      /\ k1 < k2
      /\ SeqToSet(matches[i].dict[k1].files) \cap SeqToSet(matches[i].dict[k2].files) # {}

(***************************************************************************)
(* Properties of the keeper and of the sanitizer                           *)
(***************************************************************************)
\* the group FileAutoKeeper.run was last called on
RanGroup == data[lastOp.group].files

\* the positions of the kept members of a group
KeptIn(files, k) == {i \in 1..Len(files) : files[i] \in k}

\* run was called on a group that had a kept member
RanOnKept ==
  /\ lastOp.op = "run"
  /\ KeptIn(RanGroup, lastOp.before) # {}

\* C5 as stated: FileAutoKeeper.run on a group in which a member is already
\* kept changes no keep flag, whatever the keeper's configuration.
C5_RunKeepsFlags == RanOnKept => kept = lastOp.before

\* C5 amended: FileAutoKeeper.run never clears a keep flag, and when no
\* rm_paths override is configured, run on a group in which a member is
\* already kept changes no keep flag.
C5_RunKeepsFlagsWithoutOverride ==
  /\ lastOp.op = "run" => lastOp.before \subseteq kept
  /\ (RanOnKept /\ rmPaths = {}) => kept = lastOp.before

\* run was called without override on a group with a kept and an unkept member
C5_Witness ==
  /\ RanOnKept
  /\ rmPaths = {}
  /\ KeptIn(RanGroup, lastOp.before) # 1..Len(RanGroup)

\* the members that lie under none of the rm_paths
NotUnderRmPaths(files) ==
  {f \in SeqToSet(files) : ~(\E loc \in rmPaths : Under(f.path, loc))}

\* C6: with rm_paths configured, FileAutoKeeper.run sets keep on every member
\* that lies under none of the configured paths and on no member that lies
\* under one of them.
C6_OverrideKeepsOutsideRmPaths ==
  (lastOp.op = "run" /\ rmPaths # {}) =>
     kept = lastOp.before \cup NotUnderRmPaths(RanGroup)

\* C7: a second auto_keep right after a first one leaves every keep flag as
\* the first one left it, also when groups share files.
C7_AutoKeepIdempotent ==
  (lastOp.op = "auto_keep" /\ lastOp.prev = "auto_keep") => kept = lastOp.before

\* group g has a member that is also a member of another group
Shares(g) ==
  \E h \in 1..Len(data) :
    h # g /\ SeqToSet(data[g].files) \cap SeqToSet(data[h].files) # {}

\* auto_keep ran twice over two groups that share a file, and set flags
C7_Witness ==
  /\ lastOp.op = "auto_keep" /\ lastOp.prev = "auto_keep"
  /\ Len(data) = 2 /\ Shares(1)
  /\ data[1].files # data[2].files
  /\ MembersOf(data) \cap kept # {}

\* auto_keep has just run, without override, on groups no member of which
\* was kept before
AfterAutoKeep ==
  /\ lastOp.op = "auto_keep"
  /\ rmPaths = {}
  /\ MembersOf(data) \cap lastOp.before = {}

LackKeep == {g \in 1..Len(data) : KeptIn(data[g].files, kept) = {}}

\* C9: check_data returns the members that are not kept, in group order then
\* member order, and reports exactly the groups without a kept member, with
\* the wording for all groups only when every group lacks one; for two
\* groups of which only the second lacks one it reports index 1 alone.
C9_CheckDataReport ==
  lastOp.op = "integrity" =>
    /\ lastOp.to_delete =
         Concat([g \in 1..Len(data) |->
                   SelectSeq(data[g].files, LAMBDA f : f \notin kept)])
    /\ lastOp.warning = (IF LackKeep = {} THEN "none"
                         ELSE IF Cardinality(LackKeep) = Len(data) THEN "all"
                         ELSE "these")
    /\ lastOp.warning = "these" => lastOp.groups = {g - 1 : g \in LackKeep}
    /\ (Len(data) = 2 /\ LackKeep = {2}) =>
          (lastOp.warning = "these" /\ lastOp.groups = {1})

\* check_data ran on two groups of which only the second has no kept member
C9_Witness ==
  /\ lastOp.op = "integrity"
  /\ Len(data) = 2 /\ LackKeep = {2}
  /\ Len(lastOp.to_delete) > Len(data[2].files)

\* the positions of a group (before clean_data) whose path exists and that
\* share min_stats stats with another member whose path exists
Passing(files, min_stats) ==
  LET ex == {i \in 1..Len(files) : files[i].path \in exists}
  IN {i \in ex :
        min_stats = 0 \/
        \E j \in ex \ {i} : match_count(files[i], files[j], min_stats) >= min_stats}

\* clean_solo applies to the group: one member would be left
SoloRule(files) == lastOp.clean_solo /\ Cardinality(Passing(files, lastOp.min_stats)) = 1

\* clean_kept applies to the group: every surviving member is kept
KeptRule(files) ==
  /\ lastOp.clean_kept
  /\ \A i \in Passing(files, lastOp.min_stats) : SoloRule(files) \/ files[i] \in kept

\* the number of groups' member slots that hold File f
Occ(fd, f) ==
  Cardinality({gi \in (1..Len(fd)) \X Paths :
                 gi[2] <= Len(fd[gi[1]].files) /\ fd[gi[1]].files[gi[2]] = f})

\* the member slots of f, before clean_data, that a rule allows to remove
Removable(fd, f) ==
  {gi \in (1..Len(fd)) \X Paths :
     /\ gi[2] <= Len(fd[gi[1]].files) /\ fd[gi[1]].files[gi[2]] = f
     /\ \/ gi[2] \notin Passing(fd[gi[1]].files, lastOp.min_stats)
        \/ SoloRule(fd[gi[1]].files)
        \/ KeptRule(fd[gi[1]].files)}

\* C10: clean_data removes a member whose path exists only where it fails the
\* shared-stat threshold, where clean_solo collapses its group, or where
\* clean_kept drops its group; with min_stats = 0 and both flags off it
\* removes exactly the members whose path does not exist and the groups
\* left empty.
C10_CleanRemovesOnlyAsAllowed ==
  lastOp.op = "clean" =>
    /\ \A f \in MembersOf(lastOp.before) :
         f.path \in exists =>
           Occ(lastOp.before, f) - Occ(data, f) <= Cardinality(Removable(lastOp.before, f))
    /\ (lastOp.min_stats = 0 /\ ~lastOp.clean_solo /\ ~lastOp.clean_kept) =>
         data = SelectSeq(
                  [g \in 1..Len(lastOp.before) |->
                     [lastOp.before[g] EXCEPT
                        !.files = SelectSeq(@, LAMBDA f : f.path \in exists)]],
                  LAMBDA grp : grp.files # <<>>)

\* clean_data with no rule switched on dropped a missing member and kept the
\* rest of its group
C10_Witness ==
  /\ lastOp.op = "clean"
  /\ lastOp.min_stats = 0 /\ ~lastOp.clean_solo /\ ~lastOp.clean_kept
  /\ data # <<>>
  /\ MembersOf(data) # MembersOf(lastOp.before)


(***************************************************************************)
(* Properties of the groups a scan returns                                 *)
(***************************************************************************)
\* a scan from a new log has just run to its end, uninterrupted and with
\* no error, over roots that do not overlap
PlainScanDone ==
  /\ PlainScanReturned
  /\ Len(Walk(dirs)) = Cardinality(SeqToSet(Walk(dirs)))

\* the paths of the walk that have the same size as p
SameSize(p) == {q \in SeqToSet(Walk(dirs)) : size[q] = size[p]}

\* scenario 1: grouping by size with variance 0, two files of one size and
\* every other file of a size of its own
ScenarioOne(p) ==
  /\ PlainScanDone
  /\ groupBy = <<"SIZE">> /\ sizeVar = 0 /\ exts = <<>>
  /\ p \in SeqToSet(Walk(dirs))
  /\ Cardinality(SameSize(p)) = 2
  /\ \A q \in SeqToSet(Walk(dirs)) \ SameSize(p) : SameSize(q) = {q}

\* C11: every group a scan returns has at least two members, with combine
\* on or off; in scenario 1 the result is the one group of the two files of
\* equal size, the file of another size being in no group.
C11_GroupsHaveTwoMembers ==
  /\ \A g \in 1..Len(scanResult) : Len(scanResult[g].files) >= 2
  /\ \A p \in Paths :
       ScenarioOne(p) =>
         GroupPaths(scanResult) =
           << [stat |-> "SIZE",
               files |-> SelectSeq(Walk(dirs), LAMBDA q : q \in SameSize(p))] >>

\* scenario 1 was scanned
C11_Witness ==
  /\ \E p \in Paths : ScenarioOne(p)
  /\ Len(scanResult) = 1
  /\ Cardinality(SeqToSet(Walk(dirs))) = 3


\* C12: two scans from a new log over the same files, walked in the same
\* order with the same dimensions, predicates and options, neither
\* interrupted nor hit by an error, return identical lists of groups.
C12_SameRunSameGroups ==
  (PlainScanReturned /\ lastOp.previous # <<>>) =>
     GroupPaths(scanResult) = GroupPaths(lastOp.previous[1])

\* a second scan returned groups, one of them holding a file that is also
\* in another group
C12_Witness ==
  /\ PlainScanReturned /\ lastOp.previous # <<>>
  /\ \E g, h \in 1..Len(scanResult) :
       /\ g < h
       /\ SeqToSet(scanResult[g].files) \cap SeqToSet(scanResult[h].files) # {}


\* the File whose processing raised in the current invocation of the scan,
\* while the hash_dict of that invocation is still in memory
Failed == lastOp.failed[1]
HasFailed == lastOp.op = "scan" /\ lastOp.failed # <<>> /\ matches # <<>>

\* the File object is a member of a group of dimension j of the hash_dict
InDim(obj, j) ==
  \E g \in 1..Len(matches[j].dict) : obj \in SeqToSet(matches[j].dict[g].files)

\* the entry at position i of the walk was hashed into every dimension
LaterHashed(i) ==
  \A j \in 1..Len(matches) :
    \E g \in 1..Len(matches[j].dict) :
      \E f \in SeqToSet(matches[j].dict[g].files) :
        f.path = Walk(dirs)[i] /\ f # Failed.obj

\* after an error the walk goes on: when it is done every later entry that
\* is not passed over was hashed into every dimension
C13_ScanContinues ==
  (HasFailed /\ pos > Len(Walk(dirs)) /\ trace = <<>>) =>
     \A i \in (Failed.pos + 1)..Len(Walk(dirs)) :
        ~Passed(Walk(dirs)[i]) => LaterHashed(i)

\* the failing File is in no group of the dimension whose hashing raised
C13_ExcludedWhereRaised ==
  (HasFailed /\ Failed.dim >= 1) => ~InDim(Failed.obj, Failed.dim)

\* C13: when building a File or hashing it in one dimension raises, the scan
\* goes on with the later files of the walk, the failing File is in no group
\* of the dimension that raised, and it is in a group of every other
\* dimension.
C13_ErrorExcludesOneDimension ==
  /\ C13_ScanContinues
  /\ C13_ExcludedWhereRaised
  /\ (HasFailed /\ Failed.dim >= 1) =>
        \A j \in 1..Len(matches) : j # Failed.dim => InDim(Failed.obj, j)


(***************************************************************************)
(* Resuming from a log whose rows were not all written by add_log.  The    *)
(* initial state is a controller just constructed next to a log of up to   *)
(* MaxRows rows, sound or not, and to a snapshot file that holds no group. *)
(***************************************************************************)
MaxRows == 3

\* a text that _METRIC_RE does not match, such as "-1.0 B"
NotMetric == [whole |-> -1, frac |-> 0, pfx |-> 0]

FileRow(p, sizeText) ==
  [kind |-> "FILE", path |-> p,
   cells |-> [st \in Stats |-> IF st = "SIZE" THEN sizeText
                               ELSE PathTable[p].stem]]

RowPool ==
  { FileRow(1, to_metric(1000)), FileRow(2, to_metric(1000)),
    FileRow(1, NotMetric),
    [kind |-> "KEY", stat |-> "SIZE", val |-> to_metric(1000)],
    [kind |-> "KEY", stat |-> "NAME", val |-> PathTable[1].stem],
    [kind |-> "KEY", stat |-> "SIZE", val |-> NotMetric],
    [kind |-> "KEY", stat |-> "DATE", val |-> to_metric(1000)],
    SkipRow(".txt"),
    [kind |-> "ROW"] }

LogConfigs ==
  { [dirs |-> <<"A", "B">>, exts |-> <<>>, groupBy |-> <<"SIZE">>,
     sizeVar |-> 0, combine |-> TRUE],
    [dirs |-> <<"B", "A">>, exts |-> <<>>, groupBy |-> <<"SIZE", "NAME">>,
     sizeVar |-> 1, combine |-> FALSE] }

InitLog ==
  /\ \E c \in LogConfigs :
       /\ dirs = c.dirs
       /\ exts = c.exts
       /\ groupBy = c.groupBy
       /\ sizeVar = c.sizeVar
       /\ combine = c.combine
  /\ size = [p \in Paths |-> 1000]
  /\ mtime = [p \in Paths |-> 1 + (p % 2)]
  /\ ctime = [p \in Paths |-> 1]
  /\ exists = Paths
  /\ rmPaths = {}
  /\ cleanFilter = 0
  /\ plugins = <<"FilePlugin">>
  /\ suffix = [p \in Paths |-> PathTable[p].ext]
  /\ csv = [exists |-> TRUE, rows |-> <<>>]
  /\ log \in UNION {[1..n -> RowPool] : n \in 0..MaxRows}
  /\ logExists = TRUE
  /\ Fresh

NextLog ==
  \/ \E resume \in BOOLEAN : ScanStart(resume)
  \/ \E errAt \in -1..2 : ScanStep(errAt)
  \/ ScanFinish
  \/ \E outcome \in {"ok", "declined", "failed"} : SaveCsv(outcome)

SpecLog == InitLog /\ [][NextLog]_vars

(***************************************************************************)
(* Properties of the replay of the log                                     *)
(***************************************************************************)
\* the log was just replayed by a resumed scan (or the replay raised)
Replayed ==
  /\ lastOp.op = "scan" /\ lastOp.resume
  /\ (pc = "scanning" /\ pos = 1) \/ lastScan = "aborted"

\* row n is reported and passed over: its kind is none of FILE, SKIP, KEY,
\* or it is a KEY row and no FILE row came since the start or the last SKIP
Unmatched(rows, n) ==
  /\ rows[n].kind = "KEY"
  /\ \A m \in 1..(n - 1) :
       rows[m].kind = "FILE" => \E k \in (m + 1)..(n - 1) : rows[k].kind = "SKIP"
PassedOver(rows, n) ==
  rows[n].kind \notin {"FILE", "SKIP", "KEY"} \/ Unmatched(rows, n)

\* the rows that are left when the rows passed over are taken out
Kept(rows) ==
  LET idx == {n \in 1..Len(rows) : ~PassedOver(rows, n)}
      sq == SeqOfSet(idx)
  IN [j \in 1..Len(sq) |-> rows[sq[j]]]

\* every cell of the log that read_log parses can be parsed
AllParse(rows) ==
  \A n \in 1..Len(rows) :
    /\ rows[n].kind = "FILE" => \A st \in Stats : Parses(st, rows[n].cells[st])
    /\ (rows[n].kind = "KEY" /\ ~Unmatched(rows, n)) =>
         rows[n].stat \in Stats /\ Parses(rows[n].stat, rows[n].val)

\* a row of unknown kind and a KEY row without a File are reported and
\* passed over: the replay yields what the log without them yields
C14_UnknownAndUnmatchedSkipped ==
  (Replayed /\ AllParse(log)) =>
     /\ lastScan # "aborted"
     /\ SeqToSet(lastOp.diag) = {n \in 1..Len(log) : PassedOver(log, n)}
     /\ matches = read_log(Kept(log), EmptyHashDict(groupBy)).hd
     /\ scanned = read_log(Kept(log), EmptyHashDict(groupBy)).scanned
     /\ skipped = read_log(Kept(log), EmptyHashDict(groupBy)).skipped

\* C14: replaying a scan log never aborts because of the content of a row:
\* a row of unknown kind, a KEY row with no preceding FILE row and a FILE or
\* KEY row whose dimension name or value cannot be parsed are each passed
\* over with a diagnostic and the replay goes on with the next row.
C14_ReplayNeverAborts ==
  /\ C14_UnknownAndUnmatchedSkipped
  /\ Replayed => lastScan # "aborted"


(***************************************************************************)
(* Properties of save_csv                                                  *)
(***************************************************************************)
\* the step is a save_csv whose overwrite of the existing file is declined
DeclinedStep ==
  /\ ops' = ops + 1
  /\ lastOp'.op = "save_csv" /\ lastOp'.outcome = "declined"

\* C15: when the snapshot file exists and the caller declines to overwrite
\* it, save_csv changes nothing: the file, the in-memory groups, the keep
\* flags and the scan log (which is retained) are as before.
C15_DeclinedSaveChangesNothing ==
  [][DeclinedStep =>
       /\ csv' = csv
       /\ data' = data /\ kept' = kept
       /\ logExists' = logExists /\ log' = log]_vars

\* an overwrite was declined after a scan returned groups that the file
\* does not hold, and the log of that scan is still there
C15_Witness ==
  /\ lastOp.op = "save_csv" /\ lastOp.outcome = "declined"
  /\ lastScan = "complete" /\ data # <<>>
  /\ csv.exists /\ csv.rows # CsvRows(data, kept)
  /\ logExists /\ log # <<>>


(***************************************************************************)
(* The providers: ComparisonController.__init__(plugins=...),              *)
(* register_plugin, deregister_plugin, and check_stats of the tests.  A    *)
(* text is kept as its upper-case form (base) and a number telling its     *)
(* spellings apart (0 = all upper case).                                   *)
(***************************************************************************)
MaxPlugins == 2

Text(base, form) == [base |-> base, form |-> form]

\* str.upper()
Upper(t) == [base |-> t.base, form |-> 0]

\* plugin.STATS of every provider class: the members (name, value) in
\* definition order
STATS ==
  [FilePlugin |-> << [name |-> Text("SIZE", 0), value |-> Text("SIZE", 1)],
                     [name |-> Text("NAME", 0), value |-> Text("NAME", 1)] >>,
   ImagePlugin |-> << [name |-> Text("IMAGE", 0), value |-> Text("IMAGE", 1)] >>,
   VideoPlugin |-> << [name |-> Text("VIDEO", 0), value |-> Text("IMAGE", 2)] >>,
   SizePlugin |-> << [name |-> Text("SIZE", 1), value |-> Text("BYTES", 1)] >>,
   LabelPlugin |-> << [name |-> Text("PIXELS", 0), value |-> Text("NAME", 2)] >>]

Extras == {"ImagePlugin", "VideoPlugin", "SizePlugin", "LabelPlugin"}

\* how the provider classes handed to validate are written: whether the
\* required methods are overridden, how to_str writes a number (to_metric
\* with 16 decimals as FilePlugin does, or with its default of 2), and
\* whether to_hash of from_hash of a hash gives that hash again
Written ==
  [FilePlugin |-> [overridden |-> TRUE, decimals |-> 16, rehash |-> TRUE],
   ImagePlugin |-> [overridden |-> TRUE, decimals |-> 16, rehash |-> TRUE],
   VideoPlugin |-> [overridden |-> TRUE, decimals |-> 2, rehash |-> TRUE],
   SizePlugin |-> [overridden |-> TRUE, decimals |-> 16, rehash |-> FALSE],
   LabelPlugin |-> [overridden |-> FALSE, decimals |-> 16, rehash |-> TRUE]]

\* to_metric(num, suffix) with the default of 2 decimals: num is rounded to
\* a multiple of DIVISOR^i / 100
to_metric2(num) ==
  IF num = 0 THEN [whole |-> 0, frac |-> 0, pfx |-> 0]
  ELSE LET i == MetricIdx(num)
           p == Pow(DIVISOR, i)
           unit == IF p >= 100 THEN p \div 100 ELSE 1
           t == ((num + unit \div 2) \div unit) * unit
       IN [whole |-> t \div p, frac |-> t % p, pfx |-> i]

\* instance.current_stats() of a provider: FilePlugin's stats, or the one
\* Stat of another provider, a number read from the file
PluginStats(plugin, path) ==
  IF plugin = "FilePlugin"
    THEN {[stat |-> st, value |-> current_stats(path)[st]] : st \in Stats}
  ELSE {[stat |-> STATS[plugin][1].name.base, value |-> size[path]]}

\* plugin.to_str, from_str, to_hash, from_hash
PluginToStr(plugin, stat, value) ==
  IF plugin = "FilePlugin" THEN to_str(stat, value)
  ELSE IF Written[plugin].decimals = 2 THEN to_metric2(value)
  ELSE to_metric(value)
PluginFromStr(plugin, stat, str) ==
  IF plugin = "FilePlugin" THEN from_str(stat, str) ELSE from_metric(str)
PluginToHash(plugin, stat, value) ==
  IF plugin = "FilePlugin" THEN to_hash(stat, value)
  ELSE IF Written[plugin].rehash THEN value
  ELSE value + 1
PluginFromHash(plugin, stat, hash) ==
  IF plugin = "FilePlugin" THEN from_hash(stat, hash) ELSE hash

\* validate: to1, from2, to2 of one stat of one instance for one of TO_FROM
Traversal(plugin, func, stat, from1) ==
  LET to1 == IF func = "str" THEN PluginToStr(plugin, stat, from1)
             ELSE PluginToHash(plugin, stat, from1)
      from2 == IF func = "str" THEN PluginFromStr(plugin, stat, to1)
               ELSE PluginFromHash(plugin, stat, to1)
      to2 == IF func = "str" THEN PluginToStr(plugin, stat, from2)
             ELSE PluginToHash(plugin, stat, from2)
  IN [to1 |-> to1, from2 |-> from2, to2 |-> to2]

\* the entries validate could append: one per instance, stat and function
Entries(plugin, instances, funcs) ==
  {[path |-> q, stat |-> e.stat, value |-> e.value, func |-> f] :
     q \in instances, e \in UNION {PluginStats(plugin, r) : r \in instances},
     f \in funcs}

\* variant: only the to_str / from_str traversal is tested
validate_StrOnly(plugin, instances) ==
  LET all == {e \in Entries(plugin, instances, {"str"}) :
                [stat |-> e.stat, value |-> e.value] \in PluginStats(plugin, e.path)}
      tr(e) == Traversal(plugin, e.func, e.stat, e.value)
  IN IF ~Written[plugin].overridden
       THEN [errors |-> {[func |-> "required"]}, warnings |-> {}]
     ELSE [errors |-> {e \in all : tr(e).to1 # tr(e).to2},
           warnings |-> {e \in all : tr(e).to1 = tr(e).to2 /\ e.value # tr(e).from2}]

\* ComparisonPlugin.validate(*instances): the lists errors and warnings, as
\* sets; AssertionError when errors is not empty
validate(plugin, instances) ==
  LET all == {e \in Entries(plugin, instances, {"hash", "str"}) :
                [stat |-> e.stat, value |-> e.value] \in PluginStats(plugin, e.path)}
      tr(e) == Traversal(plugin, e.func, e.stat, e.value)
  IN IF ~Written[plugin].overridden
       THEN [errors |-> {[func |-> "required"]}, warnings |-> {}]
     ELSE [errors |-> {e \in all : tr(e).to1 # tr(e).to2},
           warnings |-> {e \in all : tr(e).to1 = tr(e).to2 /\ e.value # tr(e).from2}]

\* the sizes of the sample files
SampleSizes ==
  { [p \in Paths |-> 1000], [p \in Paths |-> 1234], [p \in Paths |-> 999999],
    [p \in Paths |-> IF p = 1 THEN 1000 ELSE IF p = 2 THEN 1234 ELSE 999999] }

\* the members of all providers, in the order check_stats visits them
Members(plugs) ==
  Concat([i \in 1..Len(plugs) |->
            [j \in 1..Len(STATS[plugs[i]]) |->
               [plugin |-> plugs[i], name |-> STATS[plugs[i]][j].name,
                value |-> STATS[plugs[i]][j].value]]])

RECURSIVE CheckLoop(_, _, _, _)
\* check_stats: the loops over plugins and over plugin.STATS
CheckLoop(members, n, vals, dupes) ==
  IF n > Len(members) THEN dupes
  ELSE LET enum == members[n]
           d1 == IF Upper(enum.name) \in vals
                 THEN Append(dupes, [plugin |-> enum.plugin, text |-> enum.name])
                 ELSE dupes
           d2 == IF Upper(enum.value) \in vals
                 THEN Append(d1, [plugin |-> enum.plugin, text |-> enum.value])
                 ELSE d1
       IN CheckLoop(members, n + 1,
                    vals \cup {Upper(enum.name), Upper(enum.value)}, d2)

\* check_stats(plugins): the list dupes; AssertionError when it is not empty
check_stats(plugs) == CheckLoop(Members(plugs), 1, {}, <<>>)

RegConfigs ==
  { [dirs |-> <<"A", "B">>, exts |-> <<>>, groupBy |-> <<"SIZE">>,
     sizeVar |-> 1, combine |-> TRUE] }

InitReg ==
  /\ \E c \in RegConfigs :
       /\ dirs = c.dirs
       /\ exts = c.exts
       /\ groupBy = c.groupBy
       /\ sizeVar = c.sizeVar
       /\ combine = c.combine
  /\ size \in SampleSizes
  /\ mtime = [p \in Paths |-> 1 + (p % 2)]
  /\ ctime = [p \in Paths |-> 1]
  /\ exists = Paths
  /\ rmPaths = {}
  /\ cleanFilter = 0
  \* File.plugins = [FilePlugin] + plugins
  /\ \E extra \in UNION {[1..n -> Extras] : n \in 0..MaxPlugins} :
       /\ Len(extra) = Cardinality(SeqToSet(extra))
       /\ plugins = <<"FilePlugin">> \o extra
       /\ suffix = [p \in Paths |-> PathTable[p].ext]
  /\ csv = [exists |-> TRUE, rows |-> <<>>]
  /\ log = <<>>
  /\ logExists = FALSE
  /\ Fresh

\* ComparisonController.register_plugin(plugin): ValueError when the class
\* is registered already
RegisterPlugin(plugin) ==
  /\ pc = "idle" /\ ops < MaxOps
  /\ plugins' = IF plugin \in SeqToSet(plugins) THEN plugins
                ELSE Append(plugins, plugin)
  /\ ops' = ops + 1
  /\ lastOp' = [op |-> "register_plugin", plugin |-> plugin,
                raised |-> plugin \in SeqToSet(plugins)]
  /\ UNCHANGED << dirs, size, mtime, ctime, suffix, sizeVar, exts, groupBy, combine,
                  rmPaths, cleanFilter, exists, data, kept, csv, scanVars,
                  log, logExists, histVars >>

\* ComparisonController.deregister_plugin(plugin): list.remove raises
\* ValueError when the class is not registered
DeregisterPlugin(plugin) ==
  /\ pc = "idle" /\ ops < MaxOps
  /\ plugins' = SelectSeq(plugins, LAMBDA q : q # plugin)
  /\ ops' = ops + 1
  /\ lastOp' = [op |-> "deregister_plugin", plugin |-> plugin,
                raised |-> plugin \notin SeqToSet(plugins)]
  /\ UNCHANGED << dirs, size, mtime, ctime, suffix, sizeVar, exts, groupBy, combine,
                  rmPaths, cleanFilter, exists, data, kept, csv, scanVars,
                  log, logExists, histVars >>

\* tests/test_plugins.py validate_plugins: check_stats on the providers,
\* then plugin.validate of every provider on the test files; each
\* AssertionError is printed
ValidatePlugins ==
  /\ pc = "idle" /\ ops < MaxOps
  /\ ops' = ops + 1
  /\ lastOp' = [op |-> "validate_plugins", dupes |-> check_stats(plugins),
                results |-> [i \in 1..Len(plugins) |-> validate(plugins[i], exists)]]
  /\ UNCHANGED << envVars, exists, data, kept, csv, scanVars, log, logExists,
                  histVars >>

NextReg ==
  \/ \E plugin \in Extras : RegisterPlugin(plugin)
  \/ \E plugin \in Extras : DeregisterPlugin(plugin)
  \/ ValidatePlugins
  \/ ScanStart(FALSE)
  \/ \E errAt \in -1..2 : ScanStep(errAt)
  \/ ScanFinish
  \/ LoadCsv

SpecReg == InitReg /\ [][NextReg]_vars

(***************************************************************************)
(* Properties of the providers                                             *)
(***************************************************************************)
\* the names and values of a member, upper-cased
Texts(m) == {Upper(m.name), Upper(m.value)}

\* two members of two providers share a name or a value, case ignored
Collides(plugs) ==
  \E m1, m2 \in SeqToSet(Members(plugs)) :
    m1.plugin # m2.plugin /\ Texts(m1) \cap Texts(m2) # {}

\* check_stats raises exactly for the sets of providers that collide
C16_CheckStatsFindsCollisions ==
  lastOp.op = "validate_plugins" => ((lastOp.dupes # <<>>) <=> Collides(plugins))

\* a scan is running or has run, or a snapshot was loaded
UsedByScanOrLoad == pc = "scanning" \/ lastOp.op \in {"scan", "load_csv"}

\* C16: two registered providers never have colliding Stat names or labels
\* (case ignored, names and labels in one namespace): no scan and no load
\* runs with a set of providers that collides.
C16_NoCollisionInUse == UsedByScanOrLoad => ~Collides(plugins)


(***************************************************************************)
(* Properties of the string codec and of validate                          *)
(***************************************************************************)
\* to_str of from_str of to_str of the value gives the same text again
StrStable(plugin, stat, v) ==
  PluginToStr(plugin, stat, PluginFromStr(plugin, stat, PluginToStr(plugin, stat, v)))
    = PluginToStr(plugin, stat, v)

\* to_hash of from_hash of to_hash of the value gives the same hash again
HashStable(plugin, stat, v) ==
  PluginToHash(plugin, stat, PluginFromHash(plugin, stat, PluginToHash(plugin, stat, v)))
    = PluginToHash(plugin, stat, v)

\* FilePlugin: the string round trip of every stat of every file
FilePluginStable ==
  \A q \in Paths : \A e \in PluginStats("FilePlugin", q) :
    StrStable("FilePlugin", e.stat, e.value)

\* validate_plugins has just run; Raised(i): validate of provider i raised
Validated == lastOp.op = "validate_plugins"
Raised(i) == lastOp.results[i].errors # {}

\* a sample value of provider i violates the string round trip
StrViolated(i) ==
  \E q \in exists : \E e \in PluginStats(plugins[i], q) :
    ~StrStable(plugins[i], e.stat, e.value)
HashViolated(i) ==
  \E q \in exists : \E e \in PluginStats(plugins[i], q) :
    ~HashStable(plugins[i], e.stat, e.value)

Returned == lastScan = "complete" /\ lastOp.op = "scan" /\ matches # <<>>

\* the groups of a dimension that survive the removal of single items
Surviving(dict) == SelectSeq(dict, LAMBDA e : Len(e.files) >= 2)

RECURSIVE Buckets(_, _, _, _)
\* the surviving groups that open a merged bucket: those whose key matches
\* the key of no bucket opened before
Buckets(stat, surv, n, acc) ==
  IF n > Len(surv) THEN acc
  ELSE Buckets(stat, surv, n + 1,
               IF \E b \in acc : is_match(stat, surv[n].key, surv[b].key)
               THEN acc ELSE acc \cup {n})

\* the buckets opened before group g whose key the key of g matches
BucketsOf(stat, surv, g) ==
  {b \in Buckets(stat, surv, 1, {}) :
     b < g /\ is_match(stat, surv[g].key, surv[b].key)}

RECURSIVE FoldFiles(_, _, _)
\* add_unique of the files of the groups gs, in order
FoldFiles(files, surv, gs) ==
  IF gs = <<>> THEN files
  ELSE FoldFiles(add_unique(files, surv[Head(gs)].files), surv, Tail(gs))

\* the groups a dimension yields when every group that opens no bucket is
\* folded into the buckets chosen by into(g)
Merged(stat, dict, into(_)) ==
  LET surv == Surviving(dict)
      bs == SeqOfSet(Buckets(stat, surv, 1, {}))
  IN [j \in 1..Len(bs) |->
        [stat |-> stat,
         files |-> FoldFiles(surv[bs[j]].files, surv,
                             SeqOfSet({g \in 1..Len(surv) :
                                         g \notin SeqToSet(bs) /\ bs[j] \in into(g)}))]]

\* the list of groups of all dimensions
MergedAll(first) ==
  Concat([i \in 1..Len(matches) |->
            LET stat == matches[i].stat
                surv == Surviving(matches[i].dict)
                every(g) == BucketsOf(stat, surv, g)
                one(g) == {b \in every(g) : \A c \in every(g) : b <= c}
            IN IF first THEN Merged(stat, matches[i].dict, one)
               ELSE Merged(stat, matches[i].dict, every)])

\* C18 as stated: with combine on, each surviving group is folded into
\* exactly one merged bucket, the first already merged key that matches its
\* key, or opens a bucket of its own when none matches.
C18_FoldedIntoFirstBucket ==
  (Returned /\ combine) => scanResult = MergedAll(TRUE)

\* C18: with combine on, each surviving group is folded into every already
\* merged bucket whose key matches its key (so its members can be added to
\* two buckets), and opens a bucket of its own exactly when none matches.
C18_FoldedIntoEveryBucket ==
  (Returned /\ combine) => scanResult = MergedAll(FALSE)

\* a scan returned after a surviving group was folded into two buckets
C18_Witness ==
  /\ Returned /\ combine
  /\ \E i \in 1..Len(matches) :
       LET surv == Surviving(matches[i].dict)
       IN \E g \in 1..Len(surv) :
            Cardinality(BucketsOf(matches[i].stat, surv, g)) >= 2


(***************************************************************************)
(* Members and representative keys                                         *)
(***************************************************************************)
\* the hash of a File under a dimension
HashOf(stat, f) == to_hash(stat, current_stats(f.path)[stat])

\* the groups the scan returned with the keys they had in combo
Keyed ==
  Concat([i \in 1..Len(matches) |->
            LET combo == Combine(matches[i].stat, matches[i].dict, <<>>)
            IN [j \in 1..Len(combo) |->
                  [stat |-> matches[i].stat, key |-> combo[j].key,
                   files |-> combo[j].files]]])

\* every member of every group of the hash_dict matches the key of that group
MatchedAtInsertion ==
  \A i \in 1..Len(matches) : \A g \in 1..Len(matches[i].dict) :
    \A f \in SeqToSet(matches[i].dict[g].files) :
      is_match(matches[i].stat, matches[i].dict[g].key, HashOf(matches[i].stat, f))

\* the member was in a surviving group of the dimension whose key it matches
\* and whose key is, or matches, the key of the returned group
MatchedThrough(grp, f) ==
  \E i \in 1..Len(matches) :
    /\ matches[i].stat = grp.stat
    /\ \E e \in SeqToSet(Surviving(matches[i].dict)) :
         /\ f \in SeqToSet(e.files)
         /\ is_match(grp.stat, e.key, HashOf(grp.stat, f))
         /\ e.key = grp.key \/ is_match(grp.stat, e.key, grp.key)

\* C19 as stated: for every group a scan returns, combine on or off, the
\* hash of every member matches the representative key of the group.
C19_MembersMatchKey ==
  Returned =>
    /\ GroupPaths(scanResult) = GroupPaths(Keyed)
    /\ \A k \in 1..Len(Keyed) : \A f \in SeqToSet(Keyed[k].files) :
         is_match(Keyed[k].stat, Keyed[k].key, HashOf(Keyed[k].stat, f))

\* C19: the hash of every member matched the key of the group it was
\* inserted into.  With combine off that key is the representative key of
\* the returned group; with combine on a member of a returned group matches
\* the key of a surviving group whose key is, or matches, the representative
\* key, and need not match the representative key itself.
C19_MembersMatchInsertionKey ==
  Returned =>
    /\ GroupPaths(scanResult) = GroupPaths(Keyed)
    /\ MatchedAtInsertion
    /\ \A k \in 1..Len(Keyed) : \A f \in SeqToSet(Keyed[k].files) :
         /\ MatchedThrough(Keyed[k], f)
         /\ ~combine => is_match(Keyed[k].stat, Keyed[k].key, HashOf(Keyed[k].stat, f))

\* a scan with combine on returned a group with a member whose hash does
\* not match the representative key
C19_Witness ==
  /\ Returned /\ combine
  /\ \E k \in 1..Len(Keyed) : \E f \in SeqToSet(Keyed[k].files) :
       ~is_match(Keyed[k].stat, Keyed[k].key, HashOf(Keyed[k].stat, f))


(***************************************************************************)
(* Properties of the rows logged for a file                                *)
(***************************************************************************)
\* the step hashes a file and no exception is raised
StepLogged == StepHashed /\ lastOp' = lastOp

\* the rows the step appends to the log
NewRows == SubSeq(log', Len(log) + 1, Len(log'))

\* the groups the File of the step is a member of after the step, in the
\* order of the dimensions and of the keys; old: the key was there before
Joined ==
  Concat([i \in 1..Len(matches') |->
            LET dict == matches'[i].dict
                in == SeqOfSet({g \in 1..Len(dict) :
                                  StepObj \in SeqToSet(dict[g].files)})
            IN [j \in 1..Len(in) |->
                  [stat |-> matches'[i].stat, key |-> dict[in[j]].key,
                   old |-> in[j] <= Len(matches[i].dict)]]])

\* the log gets the rows R of the step and one FILE row comes first
FileRowFirst(R) ==
  /\ Len(log') > Len(log) /\ SubSeq(log', 1, Len(log)) = log
  /\ R[1].kind = "FILE" /\ R[1].path = StepObj.path
  /\ \A n \in 2..Len(R) : R[n].kind = "KEY"

\* C20 as stated: a processed file adds one FILE row followed by exactly one
\* KEY row for each dimension it was inserted into, whose value is the
\* serialization of the key of the group the file joined.
C20_OneKeyRowPerDimension ==
  [][StepLogged =>
       \E J \in {Joined} : \E R \in {NewRows} :
         /\ FileRowFirst(R)
         /\ Len(R) = 1 + Cardinality({J[j].stat : j \in 1..Len(J)})
         /\ \A n \in 2..Len(R) :
              \E j \in 1..Len(J) :
                /\ J[j].stat = R[n].stat
                /\ R[n].val = hash_to_str(J[j].stat, J[j].key)]_vars

\* C20: a processed file adds one FILE row followed by one KEY row for
\* every group it joined, several of one dimension when several keys
\* matched, in the order of the dimensions and of the keys.  The value of
\* the row of a group that was there before is the serialization of its
\* key; the row of a group the file opened holds the serialization of the
\* file's own value; either value is read back as the key of the group.
C20_OneKeyRowPerGroup ==
  [][StepLogged =>
       \E J \in {Joined} : \E R \in {NewRows} :
         /\ FileRowFirst(R)
         /\ Len(R) = 1 + Len(J)
         /\ \A j \in 1..Len(J) :
              /\ R[1 + j].stat = J[j].stat
              /\ str_to_hash(J[j].stat, R[1 + j].val) = J[j].key
              /\ R[1 + j].val =
                   IF J[j].old THEN hash_to_str(J[j].stat, J[j].key)
                   ELSE to_str(J[j].stat, current_stats(StepObj.path)[J[j].stat])]_vars

\* the log holds two KEY rows of one dimension next to each other: a file
\* joined two groups of that dimension
C20_Witness ==
  /\ pc = "scanning" /\ ~hadError /\ trace = <<>>
  /\ \E n \in 1..(Len(log) - 1) :
       /\ log[n].kind = "KEY" /\ log[n + 1].kind = "KEY"
       /\ log[n].stat = log[n + 1].stat



(***************************************************************************)
(* Scans that pass over files by their extension.  The initial state is a  *)
(* controller just constructed with a list of allowed extensions, over     *)
(* roots in which some files carry another suffix or none at all.          *)
(***************************************************************************)
SkipConfigs ==
  { [dirs |-> <<"A", "B">>, exts |-> <<".jpg">>, groupBy |-> <<"SIZE">>],
    [dirs |-> <<"B", "A">>, exts |-> <<".png">>, groupBy |-> <<"SIZE", "NAME">>],
    [dirs |-> <<"A", "P">>, exts |-> <<".jpg">>, groupBy |-> <<"NAME">>] }

\* the suffixes of the files on disk
Suffixes ==
  { [p \in Paths |-> PathTable[p].ext],
    [p \in Paths |-> IF p = 3 THEN "" ELSE PathTable[p].ext],
    [p \in Paths |-> IF p = 2 THEN "" ELSE PathTable[p].ext],
    [p \in Paths |-> IF p = 1 THEN ".txt" ELSE ""] }

InitSkip ==
  /\ \E c \in SkipConfigs :
       /\ dirs = c.dirs
       /\ exts = c.exts
       /\ groupBy = c.groupBy
  /\ suffix \in Suffixes
  /\ sizeVar = 0
  /\ combine = TRUE
  /\ size \in [Paths -> {1000, 1001}]
  /\ mtime = [p \in Paths |-> 1 + (p % 2)]
  /\ ctime = [p \in Paths |-> 1]
  /\ exists = Paths
  /\ rmPaths = {}
  /\ cleanFilter = 0
  /\ plugins = <<"FilePlugin">>
  /\ csv = NoCsv
  /\ log = <<>>
  /\ logExists = FALSE
  /\ Fresh

NextSkip ==
  \/ \E resume \in BOOLEAN : ScanStart(resume)
  \/ \E errAt \in -1..2 : ScanStep(errAt)
  \/ ScanInterrupt
  \/ \E cut \in 1..4 : ScanInterruptInLog(cut)
  \/ ScanFinish

SpecSkip == InitSkip /\ [][NextSkip]_vars

\* the SKIP rows of the log that record the extension ext
SkipRowsOf(ext) == {i \in 1..Len(log) : log[i] = SkipRow(ext)}

\* the extensions the files on disk can carry
AllExts == {suffix[p] : p \in Paths}

\* C21 (part): the log holds at most one SKIP record for each disallowed
\* extension that is not empty, over a scan interrupted and resumed or not.
C21_OneSkipPerNamedExt ==
  \A ext \in AllExts \ {""} : Cardinality(SkipRowsOf(ext)) <= 1

\* C21: over a whole scan, interrupted and resumed from its log or not, the
\* log holds at most one SKIP record for each disallowed extension, the
\* empty extension of files without a suffix included.
C21_OneSkipPerExt ==
  \A ext \in AllExts : Cardinality(SkipRowsOf(ext)) <= 1

(***************************************************************************)
(* The narrowing functions and the keeper on one group.  The initial state *)
(* is a controller that holds one group whose members come in any order,   *)
(* with files of any size; the narrowing functions are called on the       *)
(* members, and FileAutoKeeper.run on the group.                           *)
(***************************************************************************)
AlgoConfigs ==
  { [dirs |-> <<"A", "B">>, exts |-> <<".png", ".jpg">>, sizeVar |-> 1,
     stat |-> "SIZE", plugins |-> <<"FilePlugin">>, flat |-> FALSE],
    [dirs |-> <<"B">>, exts |-> <<".png">>, sizeVar |-> 2,
     stat |-> "NAME", plugins |-> <<"FilePlugin">>, flat |-> FALSE],
    [dirs |-> <<"P">>, exts |-> <<>>, sizeVar |-> 0,
     stat |-> "SIZE", plugins |-> <<"FilePlugin">>, flat |-> TRUE],
    [dirs |-> <<"B", "A">>, exts |-> <<>>, sizeVar |-> 0,
     stat |-> "NAME", plugins |-> <<"FilePlugin", "LabelPlugin">>, flat |-> FALSE] }

\* the member lists of a group: files that differ, in any order
Candidates ==
  {c \in UNION {[1..n -> [path : Paths, copy : {1}]] : n \in 1..NumPaths} :
     \A i, j \in 1..Len(c) : i # j => c[i] # c[j]}

\* the narrowing functions called: those of FileAlgos, and min/max
\* functions over the size with either direction and a variance
AlgoPool ==
  {MinMax("size", is_min, v) : is_min \in BOOLEAN, v \in 0..2}
  \cup {MinMax("name", TRUE, 0), MinMax("mtime", FALSE, TimeVar),
        ArrayIndex("ext", exts), ArrayIndex("loc", dirs)}

InitAlgo ==
  /\ \E c \in AlgoConfigs :
       /\ dirs = c.dirs
       /\ exts = c.exts
       /\ sizeVar = c.sizeVar
       /\ plugins = c.plugins
       /\ groupBy = <<c.stat>>
       /\ mtime = [p \in Paths |-> IF c.flat THEN 1 ELSE 1 + (p % 2)]
       /\ \E files \in Candidates : data = << [stat |-> c.stat, files |-> files] >>
  /\ size \in [Paths -> SizeVals]
  /\ suffix = [p \in Paths |-> PathTable[p].ext]
  /\ kept \in {{}, {data[1].files[Len(data[1].files)]}}
  /\ combine = TRUE
  /\ ctime = [p \in Paths |-> 1]
  /\ exists = Paths
  /\ rmPaths = {}
  /\ cleanFilter = 0
  /\ csv = NoCsv
  /\ log = <<>>
  /\ logExists = FALSE
  /\ pc = "idle"
  /\ pos = 1
  /\ made = [p \in Paths |-> 0]
  /\ matches = <<>>
  /\ skipped = {}
  /\ scanned = {}
  /\ trace = <<>>
  /\ hadError = FALSE
  /\ scanResult = <<>>
  /\ lastScan = "none"
  /\ lastOp = [op |-> "load_csv"]
  /\ ops = 0

\* a narrowing function called on the members of the group
Narrow(algo) ==
  /\ pc = "idle" /\ ops < MaxOps
  /\ data # <<>>
  /\ ops' = ops + 1
  /\ lastOp' = [op |-> "narrow", algo |-> algo, files |-> data[1].files,
                result |-> ApplyAlgo(algo, data[1].files)]
  /\ UNCHANGED << envVars, exists, data, kept, csv, scanVars, log, logExists,
                  histVars >>

NextAlgo ==
  \/ \E algo \in AlgoPool : Narrow(algo)
  \/ KeeperRun(1)

SpecAlgo == InitAlgo /\ [][NextAlgo]_vars

(***************************************************************************)
(* Properties of the narrowing functions and of FileAutoKeeper.run         *)
(***************************************************************************)
\* run was last called, with no override, on a group in which no member
\* was kept
RanPlain ==
  /\ lastOp.op = "run"
  /\ ~HasOverride
  /\ KeptIn(RanGroup, lastOp.before) = {}

RECURSIVE Stage(_, _)
\* the candidates left when the first n narrowing functions of the group
\* had their turn, a function being applied only while two candidates or
\* more remain
Stage(group, n) ==
  IF n = 0 THEN group.files
  ELSE LET prev == Stage(group, n - 1)
       IN IF Len(prev) < 2 THEN prev ELSE ApplyAlgo(get_algos(group)[n], prev)

\* the candidates left at the end of the pipeline
Survivors(group) == Stage(group, Len(get_algos(group)))

\* the keep flag was set on one member only, the first member in the order
\* of the group that is among the candidates left
FirstSurvivorKept ==
  LET files == RanGroup
      left == SeqToSet(Survivors(data[lastOp.group]))
  IN \E i \in 1..Len(files) :
       /\ files[i] \in left
       /\ \A j \in 1..(i - 1) : files[j] \notin left
       /\ kept = lastOp.before \cup {files[i]}

\* C22 as stated: with no override and no member kept, FileAutoKeeper.run
\* applies the narrowing functions of the dimension in their order, stops
\* when fewer than two candidates remain and sets keep on exactly one
\* member, the first surviving candidate in group insertion order; every
\* other flag stays as it was.
C22_FirstSurvivorKept == RanPlain => FirstSurvivorKept

\* C22 amended: the same whenever at least one candidate survives the
\* pipeline; when none survives no flag is set.
C22_FirstSurvivorKeptIfAny ==
  /\ (RanPlain /\ Survivors(data[lastOp.group]) # <<>>) => FirstSurvivorKept
  /\ (RanPlain /\ Survivors(data[lastOp.group]) = <<>>) => kept = lastOp.before

\* run was called on a group of which two members are tied at every stage,
\* and the one inserted first was kept
C22_Witness ==
  /\ RanPlain
  /\ Len(Survivors(data[lastOp.group])) >= 2
  /\ kept = lastOp.before \cup {Survivors(data[lastOp.group])[1]}
  /\ Survivors(data[lastOp.group])[1] # Survivors(data[lastOp.group])[2]

\* the stages of the pipeline at which the function applied returned no
\* candidate
EmptyStages(group) ==
  {n \in 1..Len(get_algos(group)) :
     Stage(group, n - 1) # <<>> /\ Stage(group, n) = <<>>}

\* C23: if a narrowing function returns an empty list the pipeline halts
\* and run ends with no member of the group marked keep: every keep flag of
\* the group is what it was before the run.
C23_EmptyKeepsNothing ==
  (RanPlain /\ EmptyStages(data[lastOp.group]) # {})
    => \A i \in 1..Len(RanGroup) :
         (RanGroup[i] \in kept) <=> (RanGroup[i] \in lastOp.before)

\* run was called on a group of two files or more whose first narrowing
\* function returned no candidate, with a function still to come
C23_Witness ==
  /\ RanPlain
  /\ Len(RanGroup) >= 2
  /\ \E n \in EmptyStages(data[lastOp.group]) : n < Len(get_algos(data[lastOp.group]))
  /\ kept = lastOp.before

\* a min/max narrowing function was last called
CalledMinMax == lastOp.op = "narrow" /\ lastOp.algo.kind = "minmax"

\* the value the function called reads from a file
ValueOf(f) == AlgoValue(lastOp.algo.attr, f, lastOp.algo.array)

\* the true minimum or maximum over the whole candidate list
Extremum ==
  LET vals == {ValueOf(lastOp.files[i]) : i \in 1..Len(lastOp.files)}
  IN IF lastOp.algo.is_min
     THEN CHOOSE m \in vals : \A x \in vals : m <= x
     ELSE CHOOSE m \in vals : \A x \in vals : m >= x

\* the candidates within the variance of the extremum, in input order
WithinBand ==
  SelectSeq(lastOp.files,
            LAMBDA f : /\ ValueOf(f) >= Extremum - lastOp.algo.variance
                       /\ ValueOf(f) <= Extremum + lastOp.algo.variance)

\* C24 (part): with variance 0 a min/max narrowing function returns, in
\* input order, exactly the candidates equal to the extremum.
C24_ExactExtremum ==
  (CalledMinMax /\ lastOp.algo.variance = 0) => lastOp.result = WithinBand

\* C24: a min/max narrowing function with variance v >= 0 returns, in input
\* order, exactly the candidates whose value lies within v of the true
\* minimum or maximum of the whole candidate list, for every order of the
\* candidates.
C24_WithinBandOfExtremum == CalledMinMax => lastOp.result = WithinBand

\* a preference-rank narrowing function with a list that is not empty was
\* last called
CalledArrayIndex ==
  lastOp.op = "narrow" /\ lastOp.algo.kind = "array" /\ lastOp.algo.array # <<>>

\* the position of the first entry of the list the file matches; a file
\* that matches no entry comes after every entry
Rank(f) ==
  LET array == lastOp.algo.array
      hits == {i \in 1..Len(array) :
                 IF lastOp.algo.attr = "ext" THEN suffix[f.path] = array[i]
                 ELSE Under(f.path, array[i])}
  IN IF hits = {} THEN Len(array) + 1
     ELSE CHOOSE i \in hits : \A j \in hits : i <= j

\* the candidates whose entry is closest to the front, in input order
FrontMost ==
  SelectSeq(lastOp.files,
            LAMBDA f : \A i \in 1..Len(lastOp.files) : Rank(f) <= Rank(lastOp.files[i]))

\* C25: a preference-rank narrowing function built from a list that is not
\* empty returns exactly the candidates whose matching entry is closest to
\* the front of the list; a candidate that matches no entry ranks lowest.
C25_FrontMostReturned == CalledArrayIndex => lastOp.result = FrontMost

(***************************************************************************)
(* Properties of clean_data with clean_solo, and of the integrity check    *)
(***************************************************************************)
\* clean_data was last called through clean, with clean_solo set
CleanedSolo == lastOp.op = "clean" /\ lastOp.clean_solo

\* the members of a group, before clean_data, that are neither stale nor
\* mis-grouped, in the order of the group
Remaining(files) ==
  [n \in 1..Cardinality(Passing(files, lastOp.min_stats)) |->
     files[SeqOfSet(Passing(files, lastOp.min_stats))[n]]]

\* the groups, before clean_data, of which exactly one member remains
Collapsed ==
  {g \in 1..Len(lastOp.before) :
     Len(Remaining(lastOp.before[g].files)) = 1}

C27_NoPathTwiceInGroup ==
  lastScan = "complete" =>
    \A g \in 1..Len(scanResult) :
      \A i, j \in 1..Len(scanResult[g].files) :
        i # j => scanResult[g].files[i].path # scanResult[g].files[j].path

\* C27 (part): over roots none of which lies in another, in a scan from a
\* new log, no group returned holds the same file path more than once.
C27_NoPathTwiceApartRoots ==
  (lastScan = "complete" /\ lastOp.op = "scan" /\ ~lastOp.resume /\ trace = <<>>
     /\ Len(Walk(dirs)) = Cardinality(SeqToSet(Walk(dirs)))) =>
    \A g \in 1..Len(scanResult) :
      \A i, j \in 1..Len(scanResult[g].files) :
        i # j => scanResult[g].files[i].path # scanResult[g].files[j].path

\* the paths of the deletion candidates the integrity check returned
CandidatePaths == {lastOp.to_delete[i].path : i \in 1..Len(lastOp.to_delete)}

\* a member of the group whose path is not a deletion candidate
Spared(files) == \E i \in 1..Len(files) : files[i].path \notin CandidatePaths

C29_GroupsOfRequestedDims ==
  lastScan = "complete" =>
    \A g \in 1..Len(scanResult) : scanResult[g].stat \in SeqToSet(groupBy)

\* C29 (part): every group returned by a run that started a new log has a
\* stat that is one of the dimensions requested.
C29_NewLogRequestedDims ==
  (lastScan = "complete" /\ lastOp.op = "scan" /\ ~lastOp.resume) =>
    \A g \in 1..Len(scanResult) : scanResult[g].stat \in SeqToSet(groupBy)

(***************************************************************************)
(* Properties that tie the log to the group maps in memory                 *)
(***************************************************************************)
\* a hash_dict as dimensions, keys and member paths, in order (File.__eq__)
MapPaths(hd) ==
  [i \in 1..Len(hd) |->
     [stat |-> hd[i].stat,
      dict |-> [j \in 1..Len(hd[i].dict) |->
                  [key |-> hd[i].dict[j].key,
                   files |-> [n \in 1..Len(hd[i].dict[j].files) |->
                                hd[i].dict[j].files[n].path]]]]]

\* the scanner is between two files of the walk, or past the last one
BetweenFiles == pc = "scanning"

\* the group maps rebuilt by replaying the log equal the maps in memory
LogMirrorsMaps ==
  \E R \in {Replay} :
    /\ ~R.raised
    /\ MapPaths(R.hd) = MapPaths(matches)

\* C30 (part): while no file raised an error, the group maps rebuilt by
\* replaying the log equal the maps in memory after every file handled.
C30_LogMirrorsMapsWithoutError ==
  (BetweenFiles /\ ~hadError) => LogMirrorsMaps

\* C30: after the scanner has handled a file, whether it succeeded or
\* raised a caught error in some dimension, every membership of the file in
\* a group in memory is recorded in the log, so the group maps rebuilt by
\* replaying the log at that point equal the maps in memory: same keys,
\* same members, same order.
C30_LogMirrorsMaps == BetweenFiles => LogMirrorsMaps
=============================================================================
